---- MODULE Spec2Model ----
(***************************************************************************)
(* A state-machine model of AliSimulator (PiQTree2): the depth-first       *)
(* simulation of sequences along a tree (simulateSeqsForTree /             *)
(* simulateSeqs), the per-branch event loop with insertions, deletions and *)
(* substitutions (handleIndels), the insertion list, the reconciliation of *)
(* insertions at the tips (updateNewGenomeIndels) and the removal of       *)
(* constant sites (removeConstantSites).                                   *)
(*                                                                         *)
(* Real numbers are modelled exactly: a length ratio is a fraction         *)
(* RhoNum/RhoDen, probabilities and rates are integers over a common unit, *)
(* a random number is drawn from the integers of its range.  Branch        *)
(* lengths and waiting times are whole time units.                         *)
(* Positions are 0-based as in the source; TLA+ sequences are 1-based, so  *)
(* site i of the source is element i+1 of the sequence.                    *)
(***************************************************************************)
EXTENDS Integers, Sequences, FiniteSets, TLC

(***************************************************************************)
(* Bounds of the model.                                                    *)
(***************************************************************************)
\* the number of states of the alphabet (max_num_states); STATE_UNKNOWN follows them
NumStates == 2
\* the largest target sequence length (alisim_sequence_length, in sites)
MaxSeqLen == 2
\* the largest branch length, in time units
MaxBranchLen == 2
\* the largest branch length of a run with insertions or deletions
MaxBranchLenIndels == 2
\* the largest indel size the indel-size distributions return
MaxIndelSize == 1
\* the largest number of insertion, deletion and substitution events of one run
MaxEvents == 2
\* the largest global branch scale and the largest partition rate of the edges whose
\* method is chosen
MaxBranchScale == 2
MaxPartitionRate == 2

STATE_UNKNOWN == NumStates
States == 0..(NumStates - 1)
StatesOrGap == 0..NumStates
NONE == 0
ROOT == 0

(***************************************************************************)
(* Arithmetic of the source on exact fractions.                            *)
(***************************************************************************)
\* round(n/d) of <cmath>, n >= 0, d > 0: the nearest integer, halves away from zero
Round(n, d) == (2 * n + d) \div (2 * d)

\* ceil(n/d), n >= 0, d > 0
Ceil(n, d) == (n + d - 1) \div d

Min(a, b) == IF a < b THEN a ELSE b

RECURSIVE CountState(_, _)
CountState(s, x) ==
    IF s = <<>> THEN 0
    ELSE (IF Head(s) = x THEN 1 ELSE 0) + CountState(Tail(s), x)

\* count(sequence.begin(), sequence.end(), STATE_UNKNOWN)
CountGaps(s) == CountState(s, STATE_UNKNOWN)

\* a vector of n copies of x
Fill(n, x) == [i \in 1..n |-> x]

\* vector::insert(begin()+position, new.begin(), new.end())
InsertAt(s, position, new) ==
    SubSeq(s, 1, position) \o new \o SubSeq(s, position + 1, Len(s))

(***************************************************************************)
(* The substitution model seen through the interface the simulator uses.   *)
(* Probabilities are integers over ProbTotal, every entry even, so that a  *)
(* random number can fall on a cumulative value and strictly between two.  *)
(***************************************************************************)
ProbTotal == 2 * NumStates + 2

\* model->computeTransMatrix: row-major, every entry positive, rows sum to ProbTotal
TransMatrix == [k \in 1..(NumStates * NumStates) |->
                  IF (k - 1) \div NumStates = (k - 1) % NumStates THEN 4 ELSE 2]

\* model->getQMatrix: row-major, the off-diagonal rates of row i are i + 1, rows sum
\* to 0
QMatrix == [k \in 1..(NumStates * NumStates) |->
              LET i == (k - 1) \div NumStates
              IN IF i = (k - 1) % NumStates THEN 0 - (i + 1) * (NumStates - 1) ELSE i + 1]

\* random_double() scaled to the unit of a cumulative row whose last entry is total
RandomNumbers(total) == 0..(total - 1)

\* element idx (0-based) of a flat array
At(m, idx) == m[idx + 1]

RECURSIVE AccumulateRow(_, _, _, _)
AccumulateRow(m, r, c, num_columns) ==
    IF c >= num_columns THEN m
    ELSE AccumulateRow(
           [m EXCEPT ![r * num_columns + c + 1] =
               m[r * num_columns + c + 1] + m[r * num_columns + c]],
           r, c + 1, num_columns)

RECURSIVE AccumulateRows(_, _, _, _)
AccumulateRows(m, r, num_rows, num_columns) ==
    IF r >= num_rows THEN m
    ELSE AccumulateRows(AccumulateRow(m, r, 1, num_columns), r + 1, num_rows, num_columns)

convertProMatrixIntoAccumulatedProMatrix(m, num_rows, num_columns) ==
    AccumulateRows(m, 0, num_rows, num_columns)

RECURSIVE binarysearchItemWithAccumulatedProbabilityMatrix(_, _, _, _, _)
binarysearchItemWithAccumulatedProbabilityMatrix(m, random_number, start, end, first) ==
    IF start > end THEN -1
    ELSE LET center == (start + end) \div 2 IN
         IF /\ random_number <= At(m, center)
            /\ (center = first \/ random_number > At(m, center - 1))
         THEN center
         ELSE IF random_number <= At(m, center)
              THEN binarysearchItemWithAccumulatedProbabilityMatrix(
                       m, random_number, start, center - 1, first)
              ELSE binarysearchItemWithAccumulatedProbabilityMatrix(
                       m, random_number, center + 1, end, first)

getRandomItemWithAccumulatedProbMatrixMaxProbFirst(m, starting_index, num_columns, max_prob_position, random_number) ==
    IF random_number >= (IF max_prob_position = 0 THEN 0
                         ELSE At(m, starting_index + max_prob_position - 1))
    THEN IF random_number <= At(m, starting_index + max_prob_position)
         THEN max_prob_position
         ELSE binarysearchItemWithAccumulatedProbabilityMatrix(
                  m, random_number, starting_index + max_prob_position + 1,
                  starting_index + (num_columns - 1), starting_index) - starting_index
    ELSE binarysearchItemWithAccumulatedProbabilityMatrix(
             m, random_number, starting_index, starting_index + max_prob_position - 1,
             starting_index) - starting_index

\* sub_rates of extractRatesJMatrix (one mixture class): minus the diagonal of Q
SubRates == [i \in 1..NumStates |-> 0 - At(QMatrix, (i - 1) * (NumStates + 1))]

\* the unit in which a row of the J matrix sums to JTotal
JTotal == 2 * (NumStates - 1)

\* Jmatrix of extractRatesJMatrix: Q[i][j] / sub_rates[i] off the diagonal, 0 on it,
\* then accumulated row by row
Jmatrix ==
    convertProMatrixIntoAccumulatedProMatrix(
        [k \in 1..(NumStates * NumStates) |->
            LET i == (k - 1) \div NumStates
                j == (k - 1) % NumStates
            IN IF i = j THEN 0 ELSE (JTotal * QMatrix[k]) \div SubRates[i + 1]],
        NumStates, NumStates)

\* a search that can fall off the end of the row and give the state after the last
SampleTransProbOrGap(parent_state) == StatesOrGap

\* the states one site of the child can take in
\* simulateASequenceFromBranchAfterInitVariables, over all random numbers
SampleTransProb(parent_state) ==
    IF parent_state = STATE_UNKNOWN THEN {STATE_UNKNOWN}
    ELSE LET trans_matrix ==
                 convertProMatrixIntoAccumulatedProMatrix(TransMatrix, NumStates, NumStates)
         IN {getRandomItemWithAccumulatedProbMatrixMaxProbFirst(
                 trans_matrix, parent_state * NumStates, NumStates, parent_state, r)
             : r \in RandomNumbers(ProbTotal)}

\* the states handleSubs can write over current_state, over all random numbers
SampleSubs(current_state) ==
    {getRandomItemWithAccumulatedProbMatrixMaxProbFirst(
         Jmatrix, NumStates * current_state, NumStates, NumStates \div 2, r)
     : r \in RandomNumbers(JTotal)}

(***************************************************************************)
(* GenomeTree: an ordered list of segments, either a span [lo, hi) of the  *)
(* original coordinates or a gap of hi - lo positions.                     *)
(***************************************************************************)
OrigSegment(lo, hi) == [gap |-> FALSE, lo |-> lo, hi |-> hi]
GapSegment(length) == [gap |-> TRUE, lo |-> 0, hi |-> length]

\* range splicing for a new insertion: a gap of `length` positions at the current
\* coordinate `position`
RECURSIVE SpliceGap(_, _, _)
SpliceGap(segments, position, length) ==
    IF segments = <<>> THEN <<GapSegment(length)>>
    ELSE LET h == Head(segments)
             n == h.hi - h.lo
         IN IF position = 0 THEN <<GapSegment(length)>> \o segments
            ELSE IF position < n
                 THEN <<[h EXCEPT !.hi = h.lo + position], GapSegment(length),
                        [h EXCEPT !.lo = h.lo + position]>> \o Tail(segments)
                 ELSE <<h>> \o SpliceGap(Tail(segments), position - n, length)

\* replay the insertion list from the record after `from`
RECURSIVE ReplayInsertions(_, _, _)
ReplayInsertions(segments, list, from) ==
    IF list[from].next = NONE THEN segments
    ELSE LET e == list[list[from].next]
         IN ReplayInsertions(SpliceGap(segments, e.position, e.length), list, list[from].next)

\* GenomeTree::buildGenomeTree(insertion, base_length)
buildGenomeTree(list, insertion, base_length) ==
    ReplayInsertions(IF base_length > 0 THEN <<OrigSegment(0, base_length)>> ELSE <<>>,
                     list, insertion)

\* the records after prev up to and including cur add their lengths to the base
RECURSIVE LengthBetween(_, _, _)
LengthBetween(list, prev, cur) ==
    IF prev = cur \/ list[prev].next = NONE THEN 0
    ELSE list[list[prev].next].length + LengthBetween(list, list[prev].next, cur)

\* GenomeTree::updateGenomeTree(prev_insertion, cur_insertion): a tree that was built
\* at prev_insertion over base_length, extended to cur_insertion
updateGenomeTree(list, prev_insertion, prev_base_length, cur_insertion) ==
    buildGenomeTree(list, cur_insertion,
                    prev_base_length + LengthBetween(list, prev_insertion, cur_insertion))

\* GenomeTree(seq_length): no insertion, one span over the whole sequence
IdentityGenomeTree(seq_length) ==
    IF seq_length > 0 THEN <<OrigSegment(0, seq_length)>> ELSE <<>>

\* the original-coordinate span [lo, hi) of old_seq
CopySpan(old_seq, lo, hi) ==
    [i \in 1..(hi - lo) |-> IF lo + i <= Len(old_seq) THEN old_seq[lo + i] ELSE STATE_UNKNOWN]

\* GenomeTree::exportNewGenome: walk the segments in order
RECURSIVE exportNewGenome(_, _)
exportNewGenome(segments, old_seq) ==
    IF segments = <<>> THEN <<>>
    ELSE LET h == Head(segments)
         IN (IF h.gap THEN Fill(h.hi - h.lo, STATE_UNKNOWN) ELSE CopySpan(old_seq, h.lo, h.hi))
            \o exportNewGenome(Tail(segments), old_seq)

\* the number of original positions the segments cover
RECURSIVE BaseLength(_)
BaseLength(segments) ==
    IF segments = <<>> THEN 0
    ELSE (IF Head(segments).gap THEN 0 ELSE Head(segments).hi - Head(segments).lo)
         + BaseLength(Tail(segments))

(***************************************************************************)
(* Trees.  Node 0 is the root the traversal starts from, a terminal node   *)
(* named ROOT_NAME with one neighbour; children[n] lists the neighbours of *)
(* n other than its dad, in the order FOR_NEIGHBOR visits them.            *)
(***************************************************************************)
Nodes == 0..4

\* tree 1: two taxa below the top node; tree 2: three taxa, as rootTree leaves an
\* unrooted tree of three taxa
Trees ==
    << [n \in Nodes |-> IF n = 0 THEN <<1>> ELSE IF n = 1 THEN <<2, 3>> ELSE <<>>],
       [n \in Nodes |-> IF n = 0 THEN <<1>> ELSE IF n = 1 THEN <<2, 3, 4>> ELSE <<>>] >>

TreeNodes == << 0..3, 0..4 >>

\* (*it)->length: the lengths an edge to `child` can have; rootTree links the new root
\* with length 0
BranchLengths(tree, child, indels) ==
    IF tree = 2 /\ child = 1 THEN {0}
    ELSE IF indels THEN 0..MaxBranchLenIndels ELSE 0..MaxBranchLen

\* Node::isLeaf(): one neighbour
isLeaf(children, n) == n = ROOT \/ children[n] = <<>>

\* one neighbour less than node->neighbors.size() - 1
NeighborsMinusTwo(children, n) == Len(children[n]) - 1

\* node->neighbors.size() - 1
NeighborsMinusOne(children, n) == IF n = ROOT THEN Len(children[n]) - 1 ELSE Len(children[n])

\* the real taxa: the terminal nodes other than ROOT_NAME
Leaves(t) == {n \in TreeNodes[t] : n # ROOT /\ Trees[t][n] = <<>>}

(***************************************************************************)
(* Method selection and the switching parameter.                           *)
(***************************************************************************)
\* computeSwitchingParam: a / seq_length as the fraction <<numerator, denominator>>,
\* a in thousandths
computeSwitchingParam(seq_length, is_continuous_gamma) ==
    LET a == IF ~is_continuous_gamma
             THEN (IF seq_length >= 1000000 THEN 1000
                   ELSE IF seq_length >= 500000 THEN 1100
                   ELSE IF seq_length >= 100000 THEN 1400
                   ELSE 2226)
             ELSE (IF seq_length >= 1000000 THEN 6000
                   ELSE IF seq_length >= 500000 THEN 7000
                   ELSE IF seq_length >= 100000 THEN 9100
                   ELSE 13307)
    IN <<a, 1000 * seq_length>>

\* the choice of the method with the threshold test not switched off by mixtures
\* sampled at the substitution level
SelectSimulationMethodAnyModel(length, alisim_branch_scale, thresh, isMixture, alisim_mixture_at_sub_level, isHeterotachy, has_model_attribute) ==
    IF \/ length * alisim_branch_scale * thresh[2] > thresh[1]
       \/ isHeterotachy
       \/ has_model_attribute
    THEN "TRANS_PROB_MATRIX"
    ELSE "RATE_MATRIX"

\* simulateSeqs, the choice of the simulation method of one edge; the threshold is
\* the fraction thresh[1] / thresh[2]
SelectSimulationMethod(length, alisim_branch_scale, thresh, isMixture, alisim_mixture_at_sub_level, isHeterotachy, has_model_attribute) ==
    IF \/ /\ length * alisim_branch_scale * thresh[2] > thresh[1]
          /\ ~(isMixture /\ alisim_mixture_at_sub_level)
       \/ isHeterotachy
       \/ has_model_attribute
    THEN "TRANS_PROB_MATRIX"
    ELSE "RATE_MATRIX"

(***************************************************************************)
(* The state.                                                              *)
(***************************************************************************)
VARIABLES
    params,              \* the run's inputs: tree, branch lengths, ratios, target length
    length_ratio,        \* <<numerator, denominator>>
    expected_num_sites,
    alisim_mean_deletion_size,
    alisim_simulation_thresh,
    sequence,            \* node -> its sequence, <<>> when not simulated or released
    num_gaps,            \* node -> cached gap counter
    parent,              \* node -> its dad in the traversal, -1 when unset
    num_children_done_simulation,
    insertion_pos,       \* node -> record of the insertion list, NONE when unset
    sequence_length,     \* the current length of the genome
    insertions,          \* the Insertion records allocated, in allocation order
    insertion_edge,      \* history: for each record, the node whose edge it occurred on
    first_insertion,
    latest_insertion,
    seq_length_indels,
    stack,               \* the frames of simulateSeqs: node and index of its next child
    edge,                \* the edge being simulated and the locals of handleIndels
    out,                 \* what was written to the sink
    num_events,          \* the events of the run so far
    pc

vars == << params, length_ratio, expected_num_sites, alisim_mean_deletion_size,
           alisim_simulation_thresh, sequence, num_gaps, parent,
           num_children_done_simulation, insertion_pos, sequence_length, insertions,
           insertion_edge, first_insertion, latest_insertion, seq_length_indels, stack,
           edge, out, num_events, pc >>

Children == Trees[params.tree]

indels_enabled == params.alisim_insertion_ratio + params.alisim_deletion_ratio # 0

\* round(expected_num_sites / length_ratio)
TargetLength == Round(expected_num_sites * length_ratio[2], length_ratio[1])

\* state_mapping.size() > 0: an output stream is open, either the output file or the
\* temporary file of a run with insertions and no FunDi, +ASC or partitions
\* the tips spilled to the temporary file in the runs with +ASC as well
spill_sequences_with_asc ==
    /\ params.alisim_insertion_ratio > 0
    /\ params.alisim_fundi_taxon_set = {}

write_sequences_to_tmp_data ==
    /\ params.alisim_insertion_ratio > 0
    /\ params.alisim_fundi_taxon_set = {}
    /\ length_ratio[1] <= length_ratio[2]

HasOutput == params.output_filepath \/ write_sequences_to_tmp_data

NoEdge == [node |-> -1, method |-> "NONE", length |-> 0, branch_length |-> 0, num_gaps |-> 0,
           total_sub_rate |-> 0, sub_rate_by_site |-> <<>>, total_ins_rate |-> 0,
           total_del_rate |-> 0, ori_seq_length |-> 0, insertion_before_simulation |-> NONE]

(***************************************************************************)
(* FunDi: selectAndPermuteSites and permuteSelectedSites.                  *)
(***************************************************************************)
MaxFundiSites == 4

\* the proportions of sites to permute, each below 1
Proportions == { <<0, 1>>, <<1, 4>>, <<1, 2>>, <<3, 4>> }

FunDi_Item(selected_site, new_position) ==
    [selected_site |-> selected_site, new_position |-> new_position]

\* the sequence without its element k (vector::erase)
EraseAt(seq, k) == SubSeq(seq, 1, k - 1) \o SubSeq(seq, k + 1, Len(seq))

\* the first loop: num_selected_sites distinct random sites, in the order drawn
SelectedSites(num_selected_sites, num_sites) ==
    { t \in [1..num_selected_sites -> 0..(num_sites - 1)] :
        \A i, j \in 1..num_selected_sites : i # j => t[i] # t[j] }

\* the second loop from its iteration i on (i counted from 1): a new position is
\* drawn from the pool for each selected site but the last
RECURSIVE NewPositions(_, _, _, _)
NewPositions(tmp_selected_sites, position_pool, i, fundi_items) ==
    IF i > Len(tmp_selected_sites) - 1
    THEN { [fundi_items |-> fundi_items, position_pool |-> position_pool] }
    ELSE UNION { NewPositions(tmp_selected_sites, EraseAt(position_pool, rand_num), i + 1,
                              Append(fundi_items,
                                     FunDi_Item(tmp_selected_sites[i],
                                                position_pool[rand_num]))) :
                   rand_num \in { k \in 1..Len(position_pool) :
                                    position_pool[k] # tmp_selected_sites[i] } }

\* the new position of the last selected site.  With one selected site fundi_items is
\* empty when fundi_items[0] is read; the item pushed then becomes fundi_items[0] and
\* gets the position left in the pool.
LastNewPosition(tmp_selected_sites, position_pool, fundi_items) ==
    LET last == tmp_selected_sites[Len(tmp_selected_sites)]
    IN IF last # position_pool[1]
       THEN Append(fundi_items, FunDi_Item(last, position_pool[1]))
       ELSE IF fundi_items = <<>>
            THEN << FunDi_Item(last, position_pool[1]) >>
            ELSE Append([fundi_items EXCEPT ![1].new_position = position_pool[1]],
                        FunDi_Item(last, fundi_items[1].new_position))

\* selectAndPermuteSites: the vectors it can return; none when no site is selected,
\* as ASSERT(position_pool.size() == 1) fails
selectAndPermuteSites(proportion, num_sites) ==
    LET num_selected_sites == Round(proportion[1] * num_sites, proportion[2])
    IN IF num_selected_sites = 0 THEN {}
       ELSE UNION { { LastNewPosition(t, r.position_pool, r.fundi_items) :
                        r \in NewPositions(t, t, 1, <<>>) } :
                    t \in SelectedSites(num_selected_sites, num_sites) }

\* permuteSelectedSites on a node of alisim_fundi_taxon_set: the states of the selected
\* sites are cached, then written at the new positions, item after item
RECURSIVE WritePermuted(_, _, _, _)
WritePermuted(seq, caching_sites, fundi_items, i) ==
    IF i > Len(fundi_items) THEN seq
    ELSE WritePermuted([seq EXCEPT ![fundi_items[i].new_position + 1] =
                                       caching_sites[fundi_items[i].selected_site + 1]],
                       caching_sites, fundi_items, i + 1)

\* permuteSelectedSites for every node, in the taxon set or not
permuteSelectedSitesAnyTaxon(alisim_fundi_taxon_set, fundi_items, node, seq) ==
    WritePermuted(seq, seq, fundi_items, 1)

permuteSelectedSites(alisim_fundi_taxon_set, fundi_items, node, seq) ==
    IF node \in alisim_fundi_taxon_set THEN WritePermuted(seq, seq, fundi_items, 1)
    ELSE seq

(***************************************************************************)
(* Construction: AliSimulator::AliSimulator and generatePartitionAlignment.*)
(***************************************************************************)
\* the length ratios estimateLengthRatio leaves: 1 without +ASC, above 1 with it
LengthRatios == { <<1, 1>>, <<5, 4>>, <<3, 2>> }

\* the number of sites taken as the ceiling of the product instead of its rounding
ExpectedNumSitesCeil(alisim_sequence_length, ratio) ==
    Ceil(alisim_sequence_length * ratio[1], ratio[2])

\* expected_num_sites = round(alisim_sequence_length / num_sites_per_state * length_ratio)
ExpectedNumSites(alisim_sequence_length, ratio) ==
    Round(alisim_sequence_length * ratio[1], ratio[2])

\* the root sequences: an ancestral sequence (which may hold unknown states) topped
\* up to expected_num_sites, or a random sequence of that length
RootSequences(n) == [1..n -> StatesOrGap]

\* the inputs of a run, with the root sequence generatePartitionAlignment sets.  A run
\* whose sequences are filtered after the simulation
\* (+ASC) gets no output file from its caller; the flags that have no effect on a
\* run are left off, and the threshold is set by the user only in runs without indels.
InputsWithoutFundi ==
    { p \in [ tree : 1..Len(Trees),
              alisim_insertion_ratio : 0..1,
              alisim_deletion_ratio : 0..1,
              alisim_sequence_length : 1..MaxSeqLen,
              alisim_branch_scale : {1},
              alisim_write_internal_sequences : BOOLEAN,
              user_simulation_thresh : BOOLEAN,
              output_filepath : BOOLEAN,
              root_sequence : UNION { RootSequences(n) : n \in 1..(MaxSeqLen + 1) } ] :
        /\ p.output_filepath => p.alisim_insertion_ratio = 0
        /\ p.alisim_write_internal_sequences =>
               p.output_filepath \/ p.alisim_insertion_ratio + p.alisim_deletion_ratio > 0
        /\ p.user_simulation_thresh =>
               p.alisim_insertion_ratio + p.alisim_deletion_ratio = 0 }

\* the FunDi settings of a run and the items the constructor got from
\* selectAndPermuteSites: no taxon, or the first taxon of the tree
FundiChoices(num_sites) ==
    { [alisim_fundi_taxon_set |-> {}, alisim_fundi_proportion |-> <<0, 1>>,
       fundi_items |-> <<>>] }
    \cup UNION { { [alisim_fundi_taxon_set |-> {2}, alisim_fundi_proportion |-> f,
                    fundi_items |-> items] :
                      items \in selectAndPermuteSites(f, num_sites) } :
                  f \in Proportions }

\* the inputs of a run.  FunDi is explored in the runs without indels that keep the
\* default threshold and write no internal sequence.
Inputs ==
    UNION { { p @@ c : c \in IF /\ p.alisim_insertion_ratio + p.alisim_deletion_ratio = 0
                                /\ ~p.user_simulation_thresh
                                /\ ~p.alisim_write_internal_sequences
                             THEN FundiChoices(Len(p.root_sequence))
                             ELSE FundiChoices(0) } :
            p \in InputsWithoutFundi }

\* the runs explored: at most MaxSeqLen simulated sites, one site less when sites are
\* inserted; and the runs of one more site on the two-taxon tree in which sites are
\* only deleted and the ancestral sequence has at most one known site
ExploredRun(p, ratio, num_sites, root_sequence) ==
    \/ /\ num_sites <= MaxSeqLen
       /\ p.alisim_insertion_ratio > 0 => num_sites < MaxSeqLen
    \/ /\ num_sites = MaxSeqLen + 1
       /\ p.tree = 1
       /\ p.alisim_insertion_ratio = 0
       /\ p.alisim_deletion_ratio > 0
       /\ ~p.alisim_write_internal_sequences
       /\ CountGaps(root_sequence) >= num_sites - 1

Init ==
    /\ params \in Inputs
    /\ length_ratio \in LengthRatios
    /\ length_ratio[1] > length_ratio[2] => ~params.output_filepath
    /\ expected_num_sites = ExpectedNumSites(params.alisim_sequence_length, length_ratio)
    /\ alisim_mean_deletion_size = -1
    /\ alisim_simulation_thresh = <<0, 1>>
    /\ Len(params.root_sequence) = expected_num_sites
    /\ ExploredRun(params, length_ratio, expected_num_sites, params.root_sequence)
    /\ sequence = [n \in Nodes |-> IF n = ROOT THEN params.root_sequence ELSE <<>>]
    /\ num_gaps = [n \in Nodes |-> 0]
    /\ parent = [n \in Nodes |-> -1]
    /\ num_children_done_simulation = [n \in Nodes |-> 0]
    /\ insertion_pos = [n \in Nodes |-> NONE]
    /\ sequence_length = 0
    /\ insertions = <<>>
    /\ insertion_edge = <<>>
    /\ first_insertion = NONE
    /\ latest_insertion = NONE
    /\ seq_length_indels = 0
    /\ stack = <<>>
    /\ edge = NoEdge
    /\ out = <<>>
    /\ num_events = 0
    /\ pc = "start"

(***************************************************************************)
(* simulateSeqsForTree, up to the call of simulateSeqs.                    *)
(***************************************************************************)
\* a record that never marks its sites as appended at the end
NewInsertionNeverAppended(position, length, is_append) ==
    [position |-> position, length |-> length, is_append |-> FALSE,
     next |-> NONE, phylo_nodes |-> <<>>]

\* new Insertion(position, length, is_append)
NewInsertion(position, length, is_append) ==
    [position |-> position, length |-> length, is_append |-> is_append,
     next |-> NONE, phylo_nodes |-> <<>>]

StartRun ==
    /\ pc = "start"
    /\ sequence_length' = expected_num_sites
    /\ alisim_simulation_thresh' =
           IF params.user_simulation_thresh THEN alisim_simulation_thresh
           ELSE computeSwitchingParam(expected_num_sites, FALSE)
    /\ IF params.alisim_insertion_ratio > 0
       THEN /\ insertions' = <<NewInsertion(0, 0, FALSE)>>
            /\ insertion_edge' = <<ROOT>>
            /\ first_insertion' = 1
            /\ latest_insertion' = 1
            /\ insertion_pos' = IF isLeaf(Children, ROOT)
                                THEN [insertion_pos EXCEPT ![ROOT] = 1]
                                ELSE insertion_pos
       ELSE UNCHANGED <<insertions, insertion_edge, first_insertion, latest_insertion,
                        insertion_pos>>
    /\ num_gaps' = IF indels_enabled
                   THEN [num_gaps EXCEPT ![ROOT] = CountGaps(sequence[ROOT])]
                   ELSE num_gaps
    /\ out' = IF HasOutput
              THEN <<[kind |-> "header", num_leaves |-> Cardinality(Leaves(params.tree)),
                      length |-> TargetLength]>>
              ELSE out
    /\ stack' = <<[node |-> ROOT, next |-> 1]>>
    /\ pc' = "simulate"
    /\ UNCHANGED <<params, length_ratio, expected_num_sites, alisim_mean_deletion_size,
                   sequence, parent, num_children_done_simulation, seq_length_indels,
                   edge, num_events>>

(***************************************************************************)
(* simulateSeqs: one edge, from the choice of the method to the start of   *)
(* the event loop of handleIndels.                                         *)
(***************************************************************************)
\* simulateASequenceFromBranchAfterInitVariables: the child sequences it can produce.
\* The child gets sequence_length sites; a site the dad's sequence does not have is
\* read outside the vector and can be anything.
TransProbSequences(dad_sequence, seq_length) ==
    { c \in [1..seq_length -> StatesOrGap] :
        \A i \in 1..seq_length :
            i <= Len(dad_sequence) => c[i] \in SampleTransProb(dad_sequence[i]) }

\* sub_rate_by_site of initVariables4RateMatrix (no site-specific rates)
SubRateBySite(seq) ==
    [i \in 1..Len(seq) |-> IF seq[i] # STATE_UNKNOWN THEN SubRates[seq[i] + 1] ELSE 0]

RECURSIVE SumOver(_, _)
SumOver(f, n) == IF n = 0 THEN 0 ELSE f[n] + SumOver(f, n - 1)

\* initVariables4RateMatrix
initVariables4RateMatrix(seq) ==
    [ total_sub_rate |->
          SumOver([i \in 1..NumStates |-> CountState(seq, i - 1) * SubRates[i]], NumStates),
      num_gaps |-> CountGaps(seq),
      sub_rate_by_site |-> SubRateBySite(seq) ]

\* the locals of handleIndels before its loop
HandleIndelsStart(child, child_sequence, child_num_gaps, length, method, mean_del_size) ==
    LET rm == initVariables4RateMatrix(child_sequence)
        gaps == IF method = "RATE_MATRIX" THEN rm.num_gaps ELSE child_num_gaps
    IN [ node |-> child,
         method |-> method,
         length |-> length,
         branch_length |-> length * params.alisim_branch_scale,
         num_gaps |-> gaps,
         total_sub_rate |-> IF method = "RATE_MATRIX" THEN rm.total_sub_rate ELSE 0,
         sub_rate_by_site |-> IF method = "RATE_MATRIX" THEN rm.sub_rate_by_site ELSE <<>>,
         total_ins_rate |->
             IF indels_enabled
             THEN params.alisim_insertion_ratio * (sequence_length + 1 - gaps)
             ELSE 0,
         total_del_rate |->
             IF indels_enabled
             THEN params.alisim_deletion_ratio * (sequence_length - 1 - gaps + mean_del_size)
             ELSE 0,
         ori_seq_length |-> Len(child_sequence),
         insertion_before_simulation |-> latest_insertion ]

\* the child sequence an edge starts from
ChildSequences(dad_sequence, length, method) ==
    IF length = 0 THEN {dad_sequence}
    ELSE IF method = "TRANS_PROB_MATRIX"
         THEN TransProbSequences(dad_sequence, sequence_length)
         ELSE {dad_sequence}

\* handleIndels called without the test of the branch length
CallsHandleIndelsAnyLength(length, method) ==
    indels_enabled \/ method = "RATE_MATRIX"

\* whether simulateSeqs calls handleIndels on the edge
CallsHandleIndels(length, method) ==
    length # 0 /\ (indels_enabled \/ method = "RATE_MATRIX")

SimulateEdge ==
    /\ pc = "simulate"
    /\ stack # <<>>
    /\ stack[Len(stack)].next <= Len(Children[stack[Len(stack)].node])
    /\ LET node == stack[Len(stack)].node
           child == Children[node][stack[Len(stack)].next]
       IN \E length \in BranchLengths(params.tree, child, indels_enabled) :
          LET method == SelectSimulationMethod(length, params.alisim_branch_scale,
                                               alisim_simulation_thresh,
                                               FALSE, FALSE, FALSE, FALSE)
          IN \E child_sequence \in ChildSequences(sequence[node], length, method) :
             \E mean_del_size \in
                  IF alisim_mean_deletion_size = -1 /\ CallsHandleIndels(length, method)
                     /\ indels_enabled
                  THEN 1..MaxIndelSize ELSE {alisim_mean_deletion_size} :
               /\ parent' = [parent EXCEPT ![child] = node]
               /\ num_gaps' = [num_gaps EXCEPT ![child] = num_gaps[node]]
               /\ num_children_done_simulation' =
                      IF num_children_done_simulation[node] >= NeighborsMinusOne(Children, node)
                      THEN [num_children_done_simulation EXCEPT ![node] = 0]
                      ELSE num_children_done_simulation
               /\ sequence' = [sequence EXCEPT ![child] = child_sequence]
               /\ alisim_mean_deletion_size' = mean_del_size
               /\ IF CallsHandleIndels(length, method)
                  THEN /\ edge' = HandleIndelsStart(child, child_sequence, num_gaps[node],
                                                    length, method, mean_del_size)
                       /\ pc' = "events"
                  ELSE /\ edge' = [NoEdge EXCEPT !.node = child, !.method = method,
                                                 !.length = length]
                       /\ pc' = "finish"
    /\ UNCHANGED <<params, length_ratio, expected_num_sites, alisim_simulation_thresh,
                   insertion_pos, sequence_length, insertions, insertion_edge, first_insertion,
                   latest_insertion, seq_length_indels, stack, out, num_events>>

(***************************************************************************)
(* handleIndels: the event loop.  One action per iteration.                *)
(***************************************************************************)
\* selectValidPositionForIndels, one attempt: where the random position p0 lands
\* after moving forward over gaps
RECURSIVE ScanForward(_, _, _)
ScanForward(position, upper_bound, seq) ==
    IF position >= upper_bound THEN position
    ELSE IF position = Len(seq) \/ seq[position + 1] # STATE_UNKNOWN THEN position
         ELSE ScanForward(position + 1, upper_bound, seq)

\* the random position kept as it is
LandingWithoutScan(p0, upper_bound, seq) == p0

Landing(p0, upper_bound, seq) ==
    IF p0 < Len(seq) /\ seq[p0 + 1] = STATE_UNKNOWN
    THEN ScanForward(p0, upper_bound, seq)
    ELSE p0

\* "position == sequence.size() || sequence[position] != STATE_UNKNOWN"; beyond the
\* end the site read is outside the vector and can be anything
CanBeValid(position, seq) ==
    \/ position >= Len(seq)
    \/ seq[position + 1] # STATE_UNKNOWN

CanBeInvalid(position, seq) ==
    \/ position > Len(seq)
    \/ position < Len(seq) /\ seq[position + 1] = STATE_UNKNOWN

\* selectValidPositionForIndels: the positions it can return
selectValidPositionForIndels(upper_bound, seq) ==
    { Landing(p0, upper_bound, seq) : p0 \in
        { q \in 0..(upper_bound - 1) : CanBeValid(Landing(q, upper_bound, seq), seq) } }

\* selectValidPositionForIndels can end in outError: every one of the upper_bound
\* attempts can land on a deleted site
SelectPositionCanFail(upper_bound, seq) ==
    \E p0 \in 0..(upper_bound - 1) :
        LET p == Landing(p0, upper_bound, seq)
        IN p < Len(seq) /\ seq[p + 1] = STATE_UNKNOWN

\* the remaining length left as it was
RemainingUnchanged(branch_length, waiting_time) == branch_length

\* "branch_length -= waiting_time"
RemainingAfter(branch_length, waiting_time) == branch_length - waiting_time

\* the event types the random number of one iteration can select
EventTypes(e) ==
    LET total_event_rate == e.total_sub_rate + e.total_ins_rate + e.total_del_rate
    IN { IF e.total_ins_rate > 0 \/ e.total_del_rate > 0
         THEN (IF random_num < e.total_ins_rate THEN "INSERTION"
               ELSE IF random_num < e.total_ins_rate + e.total_del_rate THEN "DELETION"
               ELSE "SUBSTITUTION")
         ELSE "SUBSTITUTION"
         : random_num \in 0..(total_event_rate - 1) }

\* an iteration that processes an event: a waiting time within the remaining length
EventEnabled(type) ==
    /\ pc = "events"
    /\ edge.branch_length > 0
    /\ num_events < MaxEvents
    /\ type \in EventTypes(edge)

\* the rates left as they were before the event
UpdateRatesUnchanged(e, length_change) == e

\* the rates after an event that changed the length by length_change
UpdateRates(e, length_change) ==
    [e EXCEPT !.total_ins_rate = @ + params.alisim_insertion_ratio * length_change,
              !.total_del_rate = @ + params.alisim_deletion_ratio * length_change]

\* the insertion recorded at the end of the inserted sites instead of their start
InsertionEffectEndRecorded(e, seq, position, new_sequence) ==
    LET length == Len(new_sequence)
        new_seq == InsertAt(seq, position, new_sequence)
        new_rates == [i \in 1..length |-> SubRates[new_sequence[i] + 1]]
    IN [ seq |-> new_seq,
         edge |-> IF e.method = "RATE_MATRIX"
                  THEN [e EXCEPT !.sub_rate_by_site = InsertAt(@, position, new_rates),
                                 !.total_sub_rate = @ + SumOver(new_rates, length)]
                  ELSE e,
         record |-> NewInsertion(position + length, length, position = sequence_length) ]

\* handleInsertion, after the position, the size and the new sites are drawn
InsertionEffect(e, seq, position, new_sequence) ==
    LET length == Len(new_sequence)
        new_seq == InsertAt(seq, position, new_sequence)
        new_rates == [i \in 1..length |-> SubRates[new_sequence[i] + 1]]
    IN [ seq |-> new_seq,
         edge |-> IF e.method = "RATE_MATRIX"
                  THEN [e EXCEPT !.sub_rate_by_site = InsertAt(@, position, new_rates),
                                 !.total_sub_rate = @ + SumOver(new_rates, length)]
                  ELSE e,
         record |-> NewInsertion(position, length, position = sequence_length) ]

\* the new record linked after the head of the list instead of its tail
AppendInsertionAfterHead(list, latest, record) ==
    [i \in 1..(Len(list) + 1) |->
        IF i = Len(list) + 1 THEN record
        ELSE IF i = 1 THEN [list[i] EXCEPT !.next = Len(list) + 1]
        ELSE list[i]]

\* the insertion list with a new record linked after latest_insertion
AppendInsertion(list, latest, record) ==
    [i \in 1..(Len(list) + 1) |->
        IF i = Len(list) + 1 THEN record
        ELSE IF i = latest THEN [list[i] EXCEPT !.next = Len(list) + 1]
        ELSE list[i]]

HandleInsertion ==
    /\ EventEnabled("INSERTION")
    /\ \E waiting_time \in 1..edge.branch_length :
       \E position \in selectValidPositionForIndels(sequence_length + 1,
                                                    sequence[edge.node]) :
       \E length \in 1..MaxIndelSize :
       \E new_sequence \in [1..length -> States] :
          LET r == InsertionEffect(edge, sequence[edge.node], position, new_sequence)
          IN /\ position <= Len(sequence[edge.node])
             /\ sequence' = [sequence EXCEPT ![edge.node] = r.seq]
             /\ insertions' = AppendInsertion(insertions, latest_insertion, r.record)
             /\ insertion_edge' = Append(insertion_edge, edge.node)
             /\ latest_insertion' = Len(insertions) + 1
             /\ sequence_length' = sequence_length + length
             /\ edge' = [UpdateRates(r.edge, length)
                           EXCEPT !.branch_length = RemainingAfter(@, waiting_time)]
    /\ num_events' = num_events + 1
    /\ UNCHANGED <<params, length_ratio, expected_num_sites, alisim_mean_deletion_size,
                   alisim_simulation_thresh, num_gaps, parent,
                   num_children_done_simulation, insertion_pos, first_insertion,
                   seq_length_indels, stack, out, pc>>

\* handleDeletion, the loop that replaces sites by gaps: i and position as in the source
RECURSIVE DeletionLoop(_, _, _, _, _, _, _)
DeletionLoop(seq, rates, rate_matrix, position, i, length, real_deleted_length) ==
    IF ~(i < length /\ position + i < Len(seq))
    THEN [seq |-> seq, sub_rate_by_site |-> rates,
          real_deleted_length |-> real_deleted_length]
    ELSE IF seq[position + i + 1] # STATE_UNKNOWN
         THEN DeletionLoop([seq EXCEPT ![position + i + 1] = STATE_UNKNOWN],
                           IF rate_matrix THEN [rates EXCEPT ![position + i + 1] = 0]
                           ELSE rates,
                           rate_matrix, position, i + 1, length, real_deleted_length + 1)
         ELSE DeletionLoop(seq,
                           IF rate_matrix THEN [rates EXCEPT ![position + i + 1] = 0]
                           ELSE rates,
                           rate_matrix, position + 1, i, length, real_deleted_length)

\* handleDeletion stopping at the first site that is already deleted
DeletionEffectStopsAtGap(e, seq, position, length) ==
    LET d == DeletionLoop(seq, e.sub_rate_by_site, e.method = "RATE_MATRIX",
                          position, 0, 1, 0)
    IN [ seq |-> d.seq,
         real_deleted_length |-> d.real_deleted_length,
         edge |-> e ]

\* handleDeletion, after the size and the position are drawn
DeletionEffect(e, seq, position, length) ==
    LET d == DeletionLoop(seq, e.sub_rate_by_site, e.method = "RATE_MATRIX",
                          position, 0, length, 0)
    IN [ seq |-> d.seq,
         real_deleted_length |-> d.real_deleted_length,
         edge |-> IF e.method = "RATE_MATRIX"
                  THEN [e EXCEPT !.sub_rate_by_site = d.sub_rate_by_site,
                                 !.total_sub_rate =
                                     @ + SumOver(d.sub_rate_by_site, Len(d.sub_rate_by_site))
                                       - SumOver(e.sub_rate_by_site, Len(e.sub_rate_by_site))]
                  ELSE e ]

\* the positions handleDeletion can start from
DeletionPositions(seq, length) ==
    IF sequence_length - length > 0
    THEN selectValidPositionForIndels(sequence_length - length, seq)
    ELSE {0}

HandleDeletion ==
    /\ EventEnabled("DELETION")
    /\ \E waiting_time \in 1..edge.branch_length :
       \E length \in 1..MaxIndelSize :
       \E position \in DeletionPositions(sequence[edge.node], length) :
          LET r == DeletionEffect(edge, sequence[edge.node], position, length)
          IN /\ sequence' = [sequence EXCEPT ![edge.node] = r.seq]
             /\ num_gaps' = [num_gaps EXCEPT ![edge.node] = @ + r.real_deleted_length]
             /\ edge' = [UpdateRates(r.edge, 0 - r.real_deleted_length)
                           EXCEPT !.branch_length = RemainingAfter(@, waiting_time)]
    /\ num_events' = num_events + 1
    /\ UNCHANGED <<params, length_ratio, expected_num_sites, alisim_mean_deletion_size,
                   alisim_simulation_thresh, parent, num_children_done_simulation,
                   insertion_pos, sequence_length, insertions, insertion_edge, first_insertion,
                   latest_insertion, seq_length_indels, stack, out, pc>>

\* handleSubs: the positions the discrete distribution over sub_rate_by_site selects
SubstitutionPositions(rates) == { i \in 1..Len(rates) : rates[i] > 0 }

\* handleSubs without the update of sub_rate_by_site
SubstitutionEffectTotalOnly(e, seq, pos, new_state) ==
    LET sub_rate_change == SubRates[new_state + 1] - SubRates[seq[pos] + 1]
    IN [ seq |-> [seq EXCEPT ![pos] = new_state],
         edge |-> [e EXCEPT !.total_sub_rate = @ + sub_rate_change] ]

\* handleSubs, after the position and the new state are drawn
SubstitutionEffect(e, seq, pos, new_state) ==
    LET sub_rate_change == SubRates[new_state + 1] - SubRates[seq[pos] + 1]
    IN [ seq |-> [seq EXCEPT ![pos] = new_state],
         edge |-> [e EXCEPT !.total_sub_rate = @ + sub_rate_change,
                            !.sub_rate_by_site[pos] = @ + sub_rate_change] ]

HandleSubs ==
    /\ EventEnabled("SUBSTITUTION")
    /\ edge.method = "RATE_MATRIX"
    /\ \E waiting_time \in 1..edge.branch_length :
       \E pos \in SubstitutionPositions(edge.sub_rate_by_site) :
       \E new_state \in SampleSubs(sequence[edge.node][pos]) :
          LET r == SubstitutionEffect(edge, sequence[edge.node], pos, new_state)
          IN /\ sequence' = [sequence EXCEPT ![edge.node] = r.seq]
             /\ edge' = [r.edge EXCEPT !.branch_length = RemainingAfter(@, waiting_time)]
    /\ num_events' = num_events + 1
    /\ UNCHANGED <<params, length_ratio, expected_num_sites, alisim_mean_deletion_size,
                   alisim_simulation_thresh, num_gaps, parent,
                   num_children_done_simulation, insertion_pos, sequence_length,
                   insertions, insertion_edge, first_insertion, latest_insertion, seq_length_indels,
                   stack, out, pc>>

\* a deletion whose position cannot be selected: outError ends the program
DeletionFails ==
    /\ EventEnabled("DELETION")
    /\ \E length \in 1..MaxIndelSize :
          /\ sequence_length - length > 0
          /\ SelectPositionCanFail(sequence_length - length, sequence[edge.node])
    /\ pc' = "error"
    /\ UNCHANGED <<params, length_ratio, expected_num_sites, alisim_mean_deletion_size,
                   alisim_simulation_thresh, sequence, num_gaps, parent,
                   num_children_done_simulation, insertion_pos, sequence_length,
                   insertions, insertion_edge, first_insertion, latest_insertion, seq_length_indels,
                   stack, edge, out, num_events>>

(***************************************************************************)
(* handleIndels: after the loop, the sequences still held are padded with  *)
(* gaps at the sites inserted on this edge.                                *)
(***************************************************************************)
\* the nodes from the dad of node up to the root
RECURSIVE PathToRoot(_, _)
PathToRoot(par, node) ==
    IF par[node] = -1 THEN {} ELSE {par[node]} \cup PathToRoot(par, par[node])

\* updateInternalSeqsFromRootToNode: the nodes visited before the traversal from the
\* root reaches the stopping node
RECURSIVE VisitedBefore(_, _, _, _)
VisitedBefore(children, node, k, stopping) ==
    \* the result of visiting the children k.. of node: the nodes visited and whether
    \* the stopping node was reached
    IF k > Len(children[node]) THEN [nodes |-> {}, stop |-> FALSE]
    ELSE IF children[node][k] = stopping THEN [nodes |-> {}, stop |-> TRUE]
    ELSE LET below == VisitedBefore(children, children[node][k], 1, stopping)
             rest == IF below.stop THEN [nodes |-> {}, stop |-> TRUE]
                     ELSE VisitedBefore(children, node, k + 1, stopping)
         IN [nodes |-> {children[node][k]} \cup below.nodes \cup rest.nodes,
             stop |-> rest.stop]

\* the update of the internal sequences left out
NodesToUpdateNone(children, par, node, write_internal_sequences) == {}

\* updateInternalSeqsIndels: the nodes whose sequence is exported again
NodesToUpdate(children, par, node, write_internal_sequences) ==
    IF write_internal_sequences
    THEN { n \in {ROOT} \cup VisitedBefore(children, ROOT, 1, node).nodes :
             (~isLeaf(children, n) \/ n = ROOT) /\ sequence[n] # <<>> }
    ELSE { n \in PathToRoot(par, node) : ~isLeaf(children, n) /\ sequence[n] # <<>> }

\* the counter of a padded node left as it was
PaddedNumGapsUnchanged(gaps, seq_length, size) == gaps

\* node->num_gaps += seq_length - node->sequence.size()
PaddedNumGaps(gaps, seq_length, size) == gaps + seq_length - size

EndOfBranch ==
    /\ pc = "events"
    /\ LET inserted == /\ edge.insertion_before_simulation # NONE
                       /\ insertions[edge.insertion_before_simulation].next # NONE
           genome_tree == buildGenomeTree(insertions, edge.insertion_before_simulation,
                                          edge.ori_seq_length)
           updated == NodesToUpdate(Children, parent, edge.node,
                                    params.alisim_write_internal_sequences)
       IN IF inserted
          THEN /\ sequence' = [n \in Nodes |->
                                 IF n \in updated
                                 THEN exportNewGenome(genome_tree, sequence[n])
                                 ELSE sequence[n]]
               /\ num_gaps' = [n \in Nodes |->
                                 IF n \in updated
                                 THEN PaddedNumGaps(num_gaps[n], sequence_length,
                                                    Len(sequence[n]))
                                 ELSE num_gaps[n]]
               /\ alisim_simulation_thresh' =
                      IF params.user_simulation_thresh THEN alisim_simulation_thresh
                      ELSE computeSwitchingParam(sequence_length, FALSE)
          ELSE UNCHANGED <<sequence, num_gaps, alisim_simulation_thresh>>
    /\ pc' = "finish"
    /\ UNCHANGED <<params, length_ratio, expected_num_sites, alisim_mean_deletion_size,
                   parent, num_children_done_simulation, insertion_pos, sequence_length,
                   insertions, insertion_edge, first_insertion, latest_insertion, seq_length_indels,
                   stack, edge, out, num_events>>

\* every leaf spilled to the temporary file, whatever the insertion ratio
WrittenLeafSpilled(n, seq) == [kind |-> "tmp", node |-> n, seq |-> seq]

(***************************************************************************)
(* simulateSeqs after the edge is simulated: the leaf is attached to the   *)
(* insertion list, sequences are written and released, and the traversal   *)
(* goes one step deeper.                                                   *)
(***************************************************************************)
\* what writeAndDeleteSequenceImmediatelyIfPossible writes for a terminal node
WrittenLeaf(n, seq) ==
    IF params.alisim_insertion_ratio > 0
    THEN [kind |-> "tmp", node |-> n, seq |-> seq]
    ELSE [kind |-> "leaf", node |-> n, seq |-> SubSeq(seq, 1, Min(TargetLength, Len(seq)))]

\* the sequence of the dad written whenever it is a terminal node, the root included
writeAndDeleteSequenceRootIncluded(node, child, seqs) ==
    LET out1 == IF HasOutput /\ isLeaf(Children, child)
                THEN Append(out, WrittenLeaf(child, seqs[child])) ELSE out
        seq1 == IF HasOutput /\ isLeaf(Children, child)
                THEN [seqs EXCEPT ![child] = <<>>] ELSE seqs
        out2 == IF HasOutput /\ isLeaf(Children, node)
                THEN Append(out1, WrittenLeaf(node, seq1[node])) ELSE out1
        seq2 == IF HasOutput /\ isLeaf(Children, node)
                THEN [seq1 EXCEPT ![node] = <<>>] ELSE seq1
    IN [out |-> out2, sequence |-> seq2,
        num_children_done_simulation |->
            [num_children_done_simulation EXCEPT ![node] = @ + 1]]

\* writeAndDeleteSequenceImmediatelyIfPossible(out, state_mapping, input_msa, it, node):
\* the sink, the sequences and the counters after it, from the sequences seqs
writeAndDeleteSequenceImmediatelyIfPossible(node, child, seqs) ==
    LET out1 == IF HasOutput /\ isLeaf(Children, child)
                THEN Append(out, WrittenLeaf(child, seqs[child])) ELSE out
        seq1 == IF HasOutput /\ isLeaf(Children, child)
                THEN [seqs EXCEPT ![child] = <<>>] ELSE seqs
        out2 == IF HasOutput /\ isLeaf(Children, node) /\ node # ROOT
                THEN Append(out1, WrittenLeaf(node, seq1[node])) ELSE out1
        seq2 == IF HasOutput /\ isLeaf(Children, node)
                THEN [seq1 EXCEPT ![node] = <<>>] ELSE seq1
        done == num_children_done_simulation[node] + 1
        release == /\ ~isLeaf(Children, node)
                   /\ done >= NeighborsMinusOne(Children, node)
                   /\ ~(indels_enabled /\ params.alisim_write_internal_sequences)
        out3 == IF release /\ params.alisim_write_internal_sequences /\ HasOutput
                THEN Append(out2, [kind |-> "internal", node |-> node,
                                   seq |-> SubSeq(seq2[node], 1,
                                                  Min(TargetLength, Len(seq2[node])))])
                ELSE out2
        seq3 == IF release THEN [seq2 EXCEPT ![node] = <<>>] ELSE seq2
    IN [out |-> out3, sequence |-> seq3,
        num_children_done_simulation |->
            [num_children_done_simulation EXCEPT ![node] = done]]

FinishEdge ==
    /\ pc = "finish"
    /\ LET node == stack[Len(stack)].node
           child == edge.node
           attach == params.alisim_insertion_ratio > 0 /\ isLeaf(Children, child)
           permute == params.alisim_fundi_taxon_set # {} /\ params.alisim_insertion_ratio = 0
           permuted == [n \in Nodes |->
                          IF permute /\ n \in {node, child} /\ isLeaf(Children, n)
                          THEN permuteSelectedSites(params.alisim_fundi_taxon_set,
                                                    params.fundi_items, n, sequence[n])
                          ELSE sequence[n]]
           w == writeAndDeleteSequenceImmediatelyIfPossible(node, child, permuted)
       IN /\ insertion_pos' = IF attach
                              THEN [insertion_pos EXCEPT ![child] = latest_insertion]
                              ELSE insertion_pos
          /\ insertions' = IF attach
                           THEN [insertions EXCEPT ![latest_insertion].phylo_nodes =
                                                       Append(@, child)]
                           ELSE insertions
          /\ out' = w.out
          /\ sequence' = w.sequence
          /\ num_children_done_simulation' = w.num_children_done_simulation
          /\ stack' = Append([stack EXCEPT ![Len(stack)].next = @ + 1],
                             [node |-> child, next |-> 1])
    /\ edge' = NoEdge
    /\ pc' = "simulate"
    /\ UNCHANGED <<insertion_edge, params, length_ratio, expected_num_sites, alisim_mean_deletion_size,
                   alisim_simulation_thresh, num_gaps, parent, sequence_length,
                   first_insertion, latest_insertion, seq_length_indels, num_events>>

\* simulateSeqs returns: every neighbour of the node is processed
ReturnFromNode ==
    /\ pc = "simulate"
    /\ stack # <<>>
    /\ stack[Len(stack)].next > Len(Children[stack[Len(stack)].node])
    /\ stack' = SubSeq(stack, 1, Len(stack) - 1)
    /\ pc' = IF Len(stack) = 1 THEN "post" ELSE "simulate"
    /\ UNCHANGED <<params, length_ratio, expected_num_sites, alisim_mean_deletion_size,
                   alisim_simulation_thresh, sequence, num_gaps, parent,
                   num_children_done_simulation, insertion_pos, sequence_length,
                   insertions, insertion_edge, first_insertion, latest_insertion, seq_length_indels,
                   edge, out, num_events>>

(***************************************************************************)
(* simulateSeqsForTree after simulateSeqs returned.                        *)
(***************************************************************************)
\* the streams are closed and the final length is recorded
FinishSimulation ==
    /\ pc = "post"
    /\ seq_length_indels' = IF params.alisim_insertion_ratio > 0 THEN sequence_length
                            ELSE seq_length_indels
    /\ pc' = IF length_ratio[1] > length_ratio[2]
             THEN (IF params.alisim_insertion_ratio > 0 THEN "update" ELSE "filter")
             ELSE "done"
    /\ UNCHANGED <<params, length_ratio, expected_num_sites, alisim_mean_deletion_size,
                   alisim_simulation_thresh, sequence, num_gaps, parent,
                   num_children_done_simulation, insertion_pos, sequence_length,
                   insertions, insertion_edge, first_insertion, latest_insertion, stack, edge, out,
                   num_events>>

\* the first record from `insertion` on that carries a tip, NONE when there is none
RECURSIVE FirstWithTips(_, _)
FirstWithTips(list, insertion) ==
    IF insertion = NONE THEN NONE
    ELSE IF list[insertion].phylo_nodes # <<>> THEN insertion
         ELSE FirstWithTips(list, list[insertion].next)

\* only the first tip of the record is exported and detached
ExportFirstTipOnly(seqs, pos, tips, genome_tree) ==
    [ sequence |-> [n \in Nodes |->
                       IF tips[1] = n THEN exportNewGenome(genome_tree, seqs[n])
                       ELSE seqs[n]],
      insertion_pos |-> [n \in Nodes |-> IF tips[1] = n THEN NONE ELSE pos[n]] ]

\* the tips of one record are exported with the genome tree and detached
ExportTips(seqs, pos, tips, genome_tree) ==
    [ sequence |-> [n \in Nodes |->
                       IF \E i \in 1..Len(tips) : tips[i] = n
                       THEN exportNewGenome(genome_tree, seqs[n]) ELSE seqs[n]],
      insertion_pos |-> [n \in Nodes |->
                            IF \E i \in 1..Len(tips) : tips[i] = n THEN NONE ELSE pos[n]] ]

\* updateNewGenomeIndels, the loop over the records after the first tip
RECURSIVE UpdateNextTips(_, _, _, _, _, _, _, _, _, _)
UpdateNextTips(list, insertion, previous_insertion, genome_tree, tips_count, rebuild_indel_his_thresh, rebuild_indel_his_step, seqs, pos, seq_length) ==
    IF insertion = NONE THEN [sequence |-> seqs, insertion_pos |-> pos]
    ELSE LET tips == list[insertion].phylo_nodes
             last == list[insertion].next = NONE
             rebuild == tips_count >= rebuild_indel_his_thresh
             tree == IF last THEN IdentityGenomeTree(seq_length)
                     ELSE IF rebuild
                          THEN buildGenomeTree(list, insertion, Len(seqs[tips[1]]))
                          ELSE updateGenomeTree(list, previous_insertion,
                                                BaseLength(genome_tree), insertion)
             e == ExportTips(seqs, pos, tips, tree)
         IN IF tips = <<>>
            THEN UpdateNextTips(list, list[insertion].next, previous_insertion,
                                genome_tree, tips_count, rebuild_indel_his_thresh,
                                rebuild_indel_his_step, seqs, pos, seq_length)
            ELSE UpdateNextTips(list, list[insertion].next,
                                IF last THEN previous_insertion ELSE insertion,
                                tree, tips_count + Len(tips),
                                IF ~last /\ rebuild
                                THEN rebuild_indel_his_thresh + rebuild_indel_his_step
                                ELSE rebuild_indel_his_thresh,
                                rebuild_indel_his_step, e.sequence, e.insertion_pos,
                                seq_length)

\* updateNewGenomeIndels(seq_length)
updateNewGenomeIndels(list, first, seqs, pos, seq_length, rebuild_indel_his_step) ==
    LET insertion == FirstWithTips(list, first)
        tips == list[insertion].phylo_nodes
        genome_tree == buildGenomeTree(list, insertion, Len(seqs[tips[1]]))
        e == ExportTips(seqs, pos, tips, genome_tree)
    IN UpdateNextTips(list, list[insertion].next, insertion, genome_tree, Len(tips),
                      rebuild_indel_his_step, rebuild_indel_his_step,
                      e.sequence, e.insertion_pos, seq_length)

\* rebuild_indel_history_param * leafNum, truncated
RebuildSteps == {1, Cardinality(Leaves(params.tree)) + 1}

UpdateNewGenomeIndels ==
    /\ pc = "update"
    /\ FirstWithTips(insertions, first_insertion) # NONE
    /\ \E rebuild_indel_his_step \in RebuildSteps :
         LET u == updateNewGenomeIndels(insertions, first_insertion, sequence,
                                        insertion_pos, seq_length_indels,
                                        rebuild_indel_his_step)
         IN /\ sequence' = u.sequence
            /\ insertion_pos' = u.insertion_pos
    /\ pc' = "filter"
    /\ UNCHANGED <<params, length_ratio, expected_num_sites, alisim_mean_deletion_size,
                   alisim_simulation_thresh, num_gaps, parent,
                   num_children_done_simulation, sequence_length, insertions, insertion_edge,
                   first_insertion, latest_insertion, seq_length_indels, stack, edge,
                   out, num_events>>

(***************************************************************************)
(* removeConstantSites (+ASC).                                             *)
(***************************************************************************)
\* the taxa below node in the order the traversals from the root visit them
RECURSIVE LeafOrder(_, _, _)
LeafOrder(children, node, k) ==
    IF k > Len(children[node])
    THEN <<>>
    ELSE LET c == children[node][k]
         IN (IF children[c] = <<>> THEN <<c>> ELSE LeafOrder(children, c, 1))
            \o LeafOrder(children, node, k + 1)

\* the mark of a variant site in variant_state_mask
VARIANT == 0 - 1

\* the loop over the sites with an unknown state of the mask compared like a state
RECURSIVE MaskSitesGapAsState(_, _, _, _, _, _)
MaskSitesGapAsState(mask, num_variant_states, seq, i, expected_num_variant_states, no_insertion) ==
    IF i > Len(seq) THEN [mask |-> mask, num_variant_states |-> num_variant_states]
    ELSE IF mask[i] # VARIANT /\ mask[i] # seq[i] /\ seq[i] # STATE_UNKNOWN
         THEN IF num_variant_states + 1 >= expected_num_variant_states /\ no_insertion
              THEN [mask |-> [mask EXCEPT ![i] = VARIANT],
                    num_variant_states |-> num_variant_states + 1]
              ELSE MaskSitesGapAsState([mask EXCEPT ![i] = VARIANT],
                                       num_variant_states + 1, seq, i + 1,
                                       expected_num_variant_states, no_insertion)
         ELSE MaskSitesGapAsState(mask, num_variant_states, seq, i + 1,
                                  expected_num_variant_states, no_insertion)

\* createVariantStateMask, the loop over the sites of one taxon from site i (1-based)
RECURSIVE MaskSites(_, _, _, _, _, _)
MaskSites(mask, num_variant_states, seq, i, expected_num_variant_states, no_insertion) ==
    IF i > Len(seq) THEN [mask |-> mask, num_variant_states |-> num_variant_states]
    ELSE IF mask[i] # VARIANT /\ mask[i] # seq[i] /\ seq[i] # STATE_UNKNOWN
         THEN IF mask[i] = STATE_UNKNOWN
              THEN MaskSites([mask EXCEPT ![i] = seq[i]], num_variant_states, seq, i + 1,
                             expected_num_variant_states, no_insertion)
              ELSE IF num_variant_states + 1 >= expected_num_variant_states /\ no_insertion
                   THEN [mask |-> [mask EXCEPT ![i] = VARIANT],
                         num_variant_states |-> num_variant_states + 1]
                   ELSE MaskSites([mask EXCEPT ![i] = VARIANT], num_variant_states + 1,
                                  seq, i + 1, expected_num_variant_states, no_insertion)
         ELSE MaskSites(mask, num_variant_states, seq, i + 1,
                        expected_num_variant_states, no_insertion)

\* createVariantStateMask over the taxa k.. of the traversal
RECURSIVE createVariantStateMask(_, _, _, _, _, _, _)
createVariantStateMask(mask, num_variant_states, expected_num_variant_states, seqs, leaves, k, no_insertion) ==
    IF k > Len(leaves) \/ (num_variant_states >= expected_num_variant_states /\ no_insertion)
    THEN [mask |-> mask, num_variant_states |-> num_variant_states]
    ELSE IF num_variant_states = -1
         THEN createVariantStateMask(seqs[leaves[k]], 0, expected_num_variant_states,
                                     seqs, leaves, k + 1, no_insertion)
         ELSE LET m == MaskSites(mask, num_variant_states, seqs[leaves[k]], 1,
                                 expected_num_variant_states, no_insertion)
              IN createVariantStateMask(m.mask, m.num_variant_states,
                                        expected_num_variant_states, seqs, leaves, k + 1,
                                        no_insertion)

\* getOnlyVariantSites for one taxon: the variant sites of seq from site i on
RECURSIVE getOnlyVariantSites(_, _, _, _, _, _)
getOnlyVariantSites(mask, seq, i, variant_sites, expected_num_variant_states, no_insertion) ==
    IF i > Len(seq) THEN variant_sites
    ELSE IF mask[i] = VARIANT
         THEN IF Len(variant_sites) + 1 >= expected_num_variant_states /\ no_insertion
              THEN Append(variant_sites, seq[i])
              ELSE getOnlyVariantSites(mask, seq, i + 1, Append(variant_sites, seq[i]),
                                       expected_num_variant_states, no_insertion)
         ELSE getOnlyVariantSites(mask, seq, i + 1, variant_sites,
                                  expected_num_variant_states, no_insertion)

\* the test with the bound itself counted as too few
TooFewVariantSitesOrEqual(num_variant_states, expected_num_variant_states) ==
    num_variant_states <= expected_num_variant_states

\* removeConstantSites: "num_variant_states < round(expected_num_sites/length_ratio)"
TooFewVariantSites(num_variant_states, expected_num_variant_states) ==
    num_variant_states < expected_num_variant_states

\* removeConstantSites: the mask it builds
VariantStateMask ==
    createVariantStateMask(<<>>, -1, TargetLength, sequence,
                           LeafOrder(Children, ROOT, 1), 1,
                           params.alisim_insertion_ratio = 0)

RemoveConstantSites ==
    /\ pc = "filter"
    /\ LET m == VariantStateMask
           leaves == LeafOrder(Children, ROOT, 1)
       IN IF TooFewVariantSites(m.num_variant_states, TargetLength)
          THEN /\ pc' = "error"
               /\ UNCHANGED <<sequence, seq_length_indels>>
          ELSE /\ pc' = "done"
               /\ seq_length_indels' = IF params.alisim_insertion_ratio > 0
                                       THEN m.num_variant_states ELSE seq_length_indels
               /\ sequence' = [n \in Nodes |->
                                 IF \E k \in 1..Len(leaves) : leaves[k] = n
                                 THEN getOnlyVariantSites(m.mask, sequence[n], 1, <<>>,
                                                          TargetLength,
                                                          params.alisim_insertion_ratio = 0)
                                 ELSE sequence[n]]
    /\ UNCHANGED <<params, length_ratio, expected_num_sites, alisim_mean_deletion_size,
                   alisim_simulation_thresh, num_gaps, parent,
                   num_children_done_simulation, insertion_pos, sequence_length,
                   insertions, insertion_edge, first_insertion, latest_insertion, stack, edge, out,
                   num_events>>

(***************************************************************************)
(* The specification.                                                      *)
(***************************************************************************)
Next ==
    \/ StartRun
    \/ SimulateEdge
    \/ HandleInsertion
    \/ HandleDeletion
    \/ HandleSubs
    \/ DeletionFails
    \/ EndOfBranch
    \/ FinishEdge
    \/ ReturnFromNode
    \/ FinishSimulation
    \/ UpdateNewGenomeIndels
    \/ RemoveConstantSites

Spec == Init /\ [][Next]_vars

(***************************************************************************)
(* Properties.                                                             *)
(***************************************************************************)
\* the taxa of the run's tree
Taxa == Leaves(params.tree)

\* the run filters constant sites after the simulation (+ASC)
Filtered == length_ratio[1] > length_ratio[2]

LeafSequences ==
    { sequence[n] : n \in Taxa } \cup
    { out[k].seq : k \in { j \in 1..Len(out) : out[j].kind \in {"leaf", "tmp"} } }

\* C2: without insertions and deletions and with a root sequence free of unknown
\* states, every leaf sequence holds only states in 0..S-1, whatever methods the edges
\* of the tree were simulated with.
C2_NoUnknownWithoutIndels ==
    (~indels_enabled /\ CountGaps(params.root_sequence) = 0) =>
        \A seq \in LeafSequences : \A i \in 1..Len(seq) : seq[i] \in States

\* a leaf was simulated by substitutions under the rate matrix in a run whose
\* top node was simulated with the transition matrix (it differs from the root at more
\* sites than one substitution changes)
C2_Witness ==
    /\ ~indels_enabled
    /\ CountGaps(params.root_sequence) = 0
    /\ pc = "finish"
    /\ edge.method = "RATE_MATRIX"
    /\ edge.length > 0
    /\ isLeaf(Children, edge.node)
    /\ sequence[edge.node] # sequence[parent[edge.node]]
    /\ ~params.user_simulation_thresh
    /\ \A i \in 1..Len(params.root_sequence) : sequence[1][i] # params.root_sequence[i]
    /\ Len(params.root_sequence) > 1

\* C3: an edge of length 0 gives its child the sequence of its parent, site for site,
\* and goes on without any event and without a new Insertion record.
C3_ZeroLengthEdge ==
    [][ (pc = "simulate" /\ pc' # "simulate" /\ pc' # "post" /\ edge'.length = 0) =>
            /\ pc' = "finish"
            /\ sequence'[edge'.node] = sequence[stack[Len(stack)].node]
            /\ insertions' = insertions
            /\ num_events' = num_events ]_vars

\* a zero-length edge was simulated in a run with indels, from a non-empty parent
C3_Witness ==
    /\ pc = "finish"
    /\ edge.length = 0
    /\ indels_enabled
    /\ sequence[edge.node] # <<>>
    /\ sequence[edge.node] = sequence[parent[edge.node]]

(***************************************************************************)
(* The choice of the simulation method of an edge, over the models, rate   *)
(* variations and scales the runs above do not have: a specification of    *)
(* its own, whose initial states are the inputs of the choice.             *)
(***************************************************************************)
\* the lengths of the sequences the threshold is computed from
ThresholdLengths == {1, 2, 10, 1000}

MethodInputs ==
    [ node : {1},
      method : {"NONE"},
      length : 0..MaxBranchLen,
      alisim_branch_scale : 1..MaxBranchScale,
      partition_rate : 1..MaxPartitionRate,
      seq_length : ThresholdLengths,
      is_continuous_gamma : BOOLEAN,
      isMixture : BOOLEAN,
      alisim_mixture_at_sub_level : BOOLEAN,
      isHeterotachy : BOOLEAN,
      has_model_attribute : BOOLEAN ]

InitMethod ==
    /\ params = [ tree |-> 1, alisim_insertion_ratio |-> 0, alisim_deletion_ratio |-> 0,
                  alisim_sequence_length |-> 1, alisim_branch_scale |-> 1,
                  alisim_write_internal_sequences |-> FALSE,
                  user_simulation_thresh |-> FALSE, output_filepath |-> FALSE,
                  root_sequence |-> <<0>> ]
    /\ length_ratio = <<1, 1>>
    /\ expected_num_sites = 1
    /\ alisim_mean_deletion_size = -1
    /\ edge \in MethodInputs
    /\ alisim_simulation_thresh =
           computeSwitchingParam(edge.seq_length, edge.is_continuous_gamma)
    /\ sequence = [n \in Nodes |-> IF n = ROOT THEN <<0>> ELSE <<>>]
    /\ num_gaps = [n \in Nodes |-> 0]
    /\ parent = [n \in Nodes |-> -1]
    /\ num_children_done_simulation = [n \in Nodes |-> 0]
    /\ insertion_pos = [n \in Nodes |-> NONE]
    /\ sequence_length = 1
    /\ insertions = <<>>
    /\ insertion_edge = <<>>
    /\ first_insertion = NONE
    /\ latest_insertion = NONE
    /\ seq_length_indels = 0
    /\ stack = <<[node |-> ROOT, next |-> 1]>>
    /\ out = <<>>
    /\ num_events = 0
    /\ pc = "select"

\* simulateSeqs, lines "select the appropriate simulation method"
SelectMethod ==
    /\ pc = "select"
    /\ edge' = [edge EXCEPT !.method =
                   SelectSimulationMethod(edge.length, edge.alisim_branch_scale,
                                          alisim_simulation_thresh, edge.isMixture,
                                          edge.alisim_mixture_at_sub_level,
                                          edge.isHeterotachy, edge.has_model_attribute)]
    /\ pc' = "selected"
    /\ UNCHANGED <<params, length_ratio, expected_num_sites, alisim_mean_deletion_size,
                   alisim_simulation_thresh, sequence, num_gaps, parent,
                   num_children_done_simulation, insertion_pos, sequence_length,
                   insertions, insertion_edge, first_insertion, latest_insertion,
                   seq_length_indels, stack, out, num_events>>

NextMethod == SelectMethod

SpecMethod == InitMethod /\ [][NextMethod]_vars

\* "x exceeds the threshold tau(L)", tau(L) = alisim_simulation_thresh
ExceedsThreshold(x) == x * alisim_simulation_thresh[2] > alisim_simulation_thresh[1]

\* C4 (as amended): the transition-matrix method is selected if and only if the edge
\* length times the global branch scale exceeds the threshold and the model is not a
\* mixture sampled at the substitution level, or the rate model is heterotachy, or the
\* edge carries a model of its own; otherwise the rate-matrix method is selected.  The
\* partition rate takes no part in the choice.
C4_MethodSelection ==
    pc = "selected" =>
        /\ edge.method \in {"TRANS_PROB_MATRIX", "RATE_MATRIX"}
        /\ edge.method = "TRANS_PROB_MATRIX" <=>
               \/ /\ ExceedsThreshold(edge.length * edge.alisim_branch_scale)
                  /\ ~(edge.isMixture /\ edge.alisim_mixture_at_sub_level)
               \/ edge.isHeterotachy
               \/ edge.has_model_attribute

\* C4 as stated: the scale includes the partition rate, and sampling mixtures at the
\* substitution level selects the transition-matrix method
C4_AsStated ==
    pc = "selected" =>
        /\ edge.method \in {"TRANS_PROB_MATRIX", "RATE_MATRIX"}
        /\ edge.method = "TRANS_PROB_MATRIX" <=>
               \/ ExceedsThreshold(edge.length * edge.alisim_branch_scale
                                     * edge.partition_rate)
               \/ edge.isHeterotachy
               \/ edge.has_model_attribute
               \/ edge.alisim_mixture_at_sub_level

\* a long edge of a mixture sampled at the substitution level got the rate-matrix method
C4_Witness ==
    /\ pc = "selected"
    /\ edge.method = "RATE_MATRIX"
    /\ ExceedsThreshold(edge.length * edge.alisim_branch_scale)
    /\ edge.isMixture
    /\ edge.alisim_mixture_at_sub_level

\* the states the taxa hold at column j (1-based), unknown states left out
KnownStatesAt(j) == { sequence[n][j] : n \in Taxa } \ {STATE_UNKNOWN}

\* the columns at which two taxa hold different known states
VariantColumns ==
    { j \in 1..Len(sequence[CHOOSE n \in Taxa : TRUE]) : Cardinality(KnownStatesAt(j)) >= 2 }

\* C5: after removeConstantSites has succeeded, every column the taxa keep holds at
\* least two different known states, all taxa have the same length, and no taxon
\* is shorter than the target length.
C5_OnlyVariantColumnsKept ==
    (pc = "done" /\ Filtered) =>
        /\ \A n, m \in Taxa : Len(sequence[n]) = Len(sequence[m])
        /\ \A n \in Taxa :
              /\ Len(sequence[n]) >= params.alisim_sequence_length
              /\ \A j \in 1..Len(sequence[n]) : Cardinality(KnownStatesAt(j)) >= 2

\* a filtered run has ended with a kept column in which a taxon holds an unknown state
C5_Witness ==
    /\ pc = "done"
    /\ Filtered
    /\ \E n \in Taxa : \E j \in 1..Len(sequence[n]) : sequence[n][j] = STATE_UNKNOWN
    /\ \A n \in Taxa : Len(sequence[n]) >= params.alisim_sequence_length

\* C6: removeConstantSites ends in an error, with every sequence as it was, when the
\* taxa have fewer variant columns than the target length, and without an error
\* when they have at least as many.
C6_ErrorIffTooFewVariantColumns ==
    [][ pc = "filter" =>
          /\ Cardinality(VariantColumns) < params.alisim_sequence_length =>
                 (pc' = "error" /\ sequence' = sequence)
          /\ Cardinality(VariantColumns) >= params.alisim_sequence_length =>
                 pc' = "done" ]_vars

\* removeConstantSites ended in the error although some column was variant
C6_Witness ==
    /\ pc = "error"
    /\ stack = <<>>
    /\ Filtered
    /\ Cardinality(VariantColumns) = 1
    /\ params.alisim_sequence_length = 2

\* the records reached from record i by following next, in order; a walk longer than
\* the list stops
RECURSIVE ListFrom(_, _, _)
ListFrom(list, i, fuel) ==
    IF i = NONE \/ fuel = 0 THEN <<>>
    ELSE <<i>> \o ListFrom(list, list[i].next, fuel - 1)

InsertionList == ListFrom(insertions, first_insertion, Len(insertions) + 1)

InsertionListNext == ListFrom(insertions', first_insertion', Len(insertions') + 1)

\* the list of a run with insertions: the head is the sentinel, every record allocated
\* is reachable, in the order of allocation, and latest_insertion is the last one
ListWellFormed ==
    (params.alisim_insertion_ratio > 0 /\ pc # "start") =>
        /\ first_insertion # NONE
        /\ insertions[first_insertion].position = 0
        /\ insertions[first_insertion].length = 0
        /\ InsertionList = [k \in 1..Len(insertions) |-> k]
        /\ latest_insertion = InsertionList[Len(InsertionList)]
        /\ insertions[latest_insertion].next = NONE

\* a step keeps the list, or links one new record after its tail
ListOnlyGrows ==
    pc # "start" =>
        /\ first_insertion' = first_insertion
        /\ Len(InsertionListNext) >= Len(InsertionList)
        /\ SubSeq(InsertionListNext, 1, Len(InsertionList)) = InsertionList
        /\ \A k \in 1..Len(insertions) :
              /\ insertions'[k].position = insertions[k].position
              /\ insertions'[k].length = insertions[k].length
              /\ insertions'[k].is_append = insertions[k].is_append
        /\ Len(InsertionListNext) > Len(InsertionList) =>
              /\ Len(InsertionListNext) = Len(InsertionList) + 1
              /\ insertions'[latest_insertion].next = latest_insertion'
              /\ latest_insertion' = InsertionListNext[Len(InsertionListNext)]

\* C7: during a run the insertion list is append-only: its head is the zero-length
\* sentinel made at the start of the run, a linked record is never removed, reordered
\* or changed in position or length, a new record is linked after the previous tail,
\* and latest_insertion is the last record reachable from first_insertion.
C7_InsertionListAppendOnly == []ListWellFormed /\ [][ListOnlyGrows]_vars

\* two records were appended, a taxon being attached between them
C7_Witness ==
    /\ Len(insertions) = 3
    /\ insertions[2].phylo_nodes # <<>>
    /\ latest_insertion = 3
    /\ insertions[first_insertion].next = 2

\* a step that appends a record to the insertion list
AppendsRecord == Len(insertions) > 0 /\ Len(insertions') = Len(insertions) + 1

\* C8 (as amended): every record appended has a position within the sequence as it is
\* before the event (0 <= position <= length before) and a length of at least 1, so
\* that position + length is at most the sequence length right after the event.
C8_InsertionWithinSequence ==
    [][ AppendsRecord =>
          LET record == insertions'[Len(insertions')]
          IN /\ record.length >= 1
             /\ 0 <= record.position
             /\ record.position <= sequence_length
             /\ record.position + record.length <= sequence_length'
             /\ sequence_length' = sequence_length + record.length
             /\ Len(sequence'[edge.node]) = sequence_length' ]_vars

\* C8 as stated, with the sequence length the event finds
C8_AsStated ==
    [][ AppendsRecord =>
          LET record == insertions'[Len(insertions')]
          IN record.position + record.length <= sequence_length ]_vars

\* sites were appended at the end of a sequence that already held an insertion
C8_Witness ==
    /\ Len(insertions) = 3
    /\ insertions[3].is_append
    /\ insertions[3].position = expected_num_sites + insertions[2].length

\* the number of sites inserted on the edge to node n
RECURSIVE InsertedOnUpTo(_, _)
InsertedOnUpTo(n, k) ==
    IF k = 0 THEN 0
    ELSE (IF insertion_edge[k] = n THEN insertions[k].length ELSE 0) + InsertedOnUpTo(n, k - 1)

InsertedOn(n) == InsertedOnUpTo(n, Len(insertions))

\* the sequence a taxon had when its edge was finished: the one it holds, or the one
\* spilled to the temporary file
FrozenSequences(n) ==
    IF sequence[n] # <<>> THEN {sequence[n]}
    ELSE { out[k].seq : k \in { j \in 1..Len(out) : out[j].kind = "tmp" /\ out[j].node = n } }

\* the run of C9: two taxa, insertions without deletions, a root without unknown
\* states, at least one insertion, the traversal over
TwoTaxaInsertionsOnly ==
    /\ params.tree = 1
    /\ params.alisim_insertion_ratio > 0
    /\ params.alisim_deletion_ratio = 0
    /\ CountGaps(params.root_sequence) = 0
    /\ Len(insertions) >= 2
    /\ pc \in {"post", "update", "filter"}

\* C9 (as amended): on a two-taxon tree with insertions, no deletions and a root free
\* of unknown states, a run with at least one insertion ends with a length above the
\* initial one, and a leaf holds exactly as many unknown states as sites were inserted
\* on the edge of the other leaf once the tips are reconciled (before that, the leaf
\* simulated first holds none and the second those inserted on the edge of the first):
\* the count is zero on both leaves only when every insertion occurred above their
\* common parent.
C9_UnknownOnlyFromOtherLineage ==
    TwoTaxaInsertionsOnly =>
        /\ sequence_length > expected_num_sites
        /\ pc = "filter" =>
              /\ Len(sequence[2]) = sequence_length
              /\ Len(sequence[3]) = sequence_length
              /\ CountGaps(sequence[2]) = InsertedOn(3)
              /\ CountGaps(sequence[3]) = InsertedOn(2)
        /\ pc \in {"post", "update"} =>
              /\ FrozenSequences(2) # {}
              /\ FrozenSequences(3) # {}
              /\ \A seq \in FrozenSequences(2) : CountGaps(seq) = 0
              /\ \A seq \in FrozenSequences(3) : CountGaps(seq) = InsertedOn(2)

\* C9 as stated: no unknown state on either leaf
C9_AsStated ==
    TwoTaxaInsertionsOnly =>
        /\ sequence_length > expected_num_sites
        /\ \A n \in Taxa : \A seq \in FrozenSequences(n) : CountGaps(seq) = 0

\* the tips are reconciled after one insertion on the edge of each leaf
C9_Witness ==
    /\ TwoTaxaInsertionsOnly
    /\ pc = "filter"
    /\ InsertedOn(2) > 0
    /\ InsertedOn(3) > 0
    /\ CountGaps(sequence[2]) = InsertedOn(3)

\* which sites of the final genome were inserted after record `from`: the records
\* after it, replayed on a sequence of base_length sites marked FALSE
RECURSIVE InsertedAfter(_, _, _)
InsertedAfter(list, from, mask) ==
    IF list[from].next = NONE THEN mask
    ELSE LET record == list[list[from].next]
         IN InsertedAfter(list, list[from].next,
                          InsertAt(mask, record.position, Fill(record.length, TRUE)))

\* the sites of seq at which the mask is FALSE, in order
RECURSIVE Unmasked(_, _)
Unmasked(seq, mask) ==
    IF seq = <<>> \/ mask = <<>> THEN <<>>
    ELSE (IF Head(mask) THEN <<>> ELSE <<Head(seq)>>) \o Unmasked(Tail(seq), Tail(mask))

Released == { n \in Nodes : ~isLeaf(Children, n) /\ sequence[n] # <<>> /\ sequence'[n] = <<>> }

\* C11 (as amended): in a run with indels enabled, the num_gaps counter of an internal
\* node equals the number of unknown states of its sequence at the moment the sequence
\* is released, whatever events occurred on its edge and whatever padding insertions
\* in other subtrees caused.
C11_GapCounterAtRelease ==
    [][ indels_enabled => \A n \in Released : num_gaps[n] = CountGaps(sequence[n]) ]_vars

\* C11 as stated: in every run
C11_AsStated ==
    [][ \A n \in Released : num_gaps[n] = CountGaps(sequence[n]) ]_vars

\* an internal node was released that lost a site on its own edge and was padded for
\* an insertion below it
C11_Witness ==
    /\ indels_enabled
    /\ pc = "simulate"
    /\ sequence[1] = <<>>
    /\ num_children_done_simulation[1] >= NeighborsMinusOne(Children, 1)
    /\ num_gaps[1] > num_gaps[ROOT] + 1
    /\ \E k \in 2..Len(insertions) : insertion_edge[k] \in Taxa

\* the terminal nodes below node in the order the depth-first traversal meets them
RECURSIVE DfsLeavesFrom(_, _, _)
DfsLeavesFrom(children, node, k) ==
    IF children[node] = <<>> THEN <<node>>
    ELSE IF k > Len(children[node]) THEN <<>>
    ELSE DfsLeavesFrom(children, children[node][k], 1) \o DfsLeavesFrom(children, node, k + 1)

\* the nodes whose sequence was written to the sink, in the order of writing
RECURSIVE WrittenNodes(_)
WrittenNodes(o) ==
    IF o = <<>> THEN <<>>
    ELSE (IF Head(o).kind \in {"leaf", "tmp"} THEN <<Head(o).node>> ELSE <<>>)
         \o WrittenNodes(Tail(o))

idle_vars == << params, length_ratio, expected_num_sites, alisim_mean_deletion_size,
                alisim_simulation_thresh, sequence, num_gaps, parent,
                num_children_done_simulation, insertion_pos, sequence_length, insertions,
                insertion_edge, first_insertion, latest_insertion, seq_length_indels,
                stack, num_events >>

IdleRun ==
    /\ params = [ tree |-> 1, alisim_insertion_ratio |-> 0, alisim_deletion_ratio |-> 0,
                  alisim_sequence_length |-> 1, alisim_branch_scale |-> 1,
                  alisim_write_internal_sequences |-> FALSE,
                  user_simulation_thresh |-> FALSE, output_filepath |-> FALSE,
                  root_sequence |-> <<0>> ]
    /\ length_ratio = <<1, 1>>
    /\ expected_num_sites = 1
    /\ alisim_mean_deletion_size = -1
    /\ alisim_simulation_thresh = <<0, 1>>
    /\ sequence = [n \in Nodes |-> <<>>]
    /\ num_gaps = [n \in Nodes |-> 0]
    /\ parent = [n \in Nodes |-> -1]
    /\ num_children_done_simulation = [n \in Nodes |-> 0]
    /\ insertion_pos = [n \in Nodes |-> NONE]
    /\ sequence_length = 0
    /\ insertions = <<>>
    /\ insertion_edge = <<>>
    /\ first_insertion = NONE
    /\ latest_insertion = NONE
    /\ seq_length_indels = 0
    /\ stack = <<>>
    /\ num_events = 0

(***************************************************************************)
(* The PHYLIP output: the header of simulateSeqsForTree and the lines of   *)
(* writeAndDeleteSequenceImmediatelyIfPossible.  A string is a sequence of *)
(* characters.                                                             *)
(***************************************************************************)
MaxNameLen == 2

NameChars == {"a", "b"}

\* the taxon names: not empty, without white space
TaxonNames == UNION { [1..n -> NameChars] : n \in 1..MaxNameLen }

\* aln->convertStateBackStr: the character of a state, "-" for the unknown state
StateChars == <<"A", "C", "G", "T">>

convertStateBackStr(state) == IF state = STATE_UNKNOWN THEN "-" ELSE StateChars[state + 1]

\* extractMaxTaxaNameLength: the width never shrinks below the value it had
RECURSIVE extractMaxTaxaNameLength(_, _, _)
extractMaxTaxaNameLength(seq_names, i, max_length_taxa_name) ==
    IF i > Len(seq_names) THEN max_length_taxa_name
    ELSE extractMaxTaxaNameLength(seq_names, i + 1,
             IF Len(seq_names[i]) > max_length_taxa_name THEN Len(seq_names[i])
             ELSE max_length_taxa_name)

\* std::string::resize(n, ' '): cut to n characters or padded with spaces up to n
Resize(str, n) ==
    IF Len(str) >= n THEN SubSeq(str, 1, n)
    ELSE str \o [i \in 1..(n - Len(str)) |-> " "]

\* exportPreOutputString, PHYLIP format (the name of a taxon is never empty)
exportPreOutputString(name, max_length_taxa_name) == Resize(name, max_length_taxa_name)

\* convertNumericalStatesIntoReadableCharacters without the final newline
convertNumericalStatesIntoReadableCharacters(seq, seq_length) ==
    [i \in 1..seq_length |-> convertStateBackStr(seq[i])]

\* the line written for one leaf
LeafLine(name, seq, seq_length, max_length_taxa_name) ==
    exportPreOutputString(name, max_length_taxa_name)
        \o convertNumericalStatesIntoReadableCharacters(seq, seq_length)
\* the values max_length_taxa_name can hold before the names are scanned
InitialNameWidths == 0..(MaxNameLen + 1)

OutputInputs ==
    { i \in [ names : [1..2 -> TaxonNames],
              seqs : UNION { [1..2 -> [1..n -> StatesOrGap]] : n \in 1..MaxSeqLen },
              seq_length : 1..MaxSeqLen,
              max_length_taxa_name : InitialNameWidths ] :
        /\ i.names[1] # i.names[2]
        /\ i.seq_length <= Len(i.seqs[1]) }

InitOutput ==
    /\ IdleRun
    /\ edge \in OutputInputs
    /\ out = <<>>
    /\ pc = "format"

\* the header and the lines of the leaves, in the order of the leaves
WriteOutput ==
    /\ pc = "format"
    /\ LET width == extractMaxTaxaNameLength(edge.names, 1, edge.max_length_taxa_name)
       IN out' = << [kind |-> "header", num_leaves |-> Len(edge.names),
                     length |-> edge.seq_length] >>
                 \o [k \in 1..Len(edge.names) |->
                       [kind |-> "line",
                        text |-> LeafLine(edge.names[k], edge.seqs[k], edge.seq_length,
                                          width)]]
    /\ pc' = "written"
    /\ UNCHANGED <<idle_vars, edge>>

NextOutput == WriteOutput

SpecOutput == InitOutput /\ [][NextOutput]_vars

\* reading a PHYLIP line: the name ends at the first space, the sequence is what
\* follows the spaces after it
RECURSIVE UpToSpace(_)
UpToSpace(str) ==
    IF str = <<>> \/ Head(str) = " " THEN <<>> ELSE <<Head(str)>> \o UpToSpace(Tail(str))

RECURSIVE SkipSpaces(_)
SkipSpaces(str) ==
    IF str # <<>> /\ Head(str) = " " THEN SkipSpaces(Tail(str)) ELSE str

\* the state a character stands for
StateOfChar(c) ==
    IF c = "-" THEN STATE_UNKNOWN
    ELSE CHOOSE state \in 0..(Len(StateChars) - 1) : StateChars[state + 1] = c

ReadPhylipLine(str) ==
    LET name == UpToSpace(str)
        rest == SkipSpaces(SubSeq(str, Len(name) + 1, Len(str)))
    IN << name,
          [i \in 1..Len(rest) |->
              IF rest[i] \in NameChars THEN rest[i] ELSE StateOfChar(rest[i])] >>

\* the mapping from names to sequences read back from the lines written
ReadPhylip(o) == { ReadPhylipLine(o[k].text) : k \in 2..Len(o) }

\* C13 as stated: the PHYLIP output (header, then per leaf the name padded to the
\* maximum name length, a space, the sequence) reads back to the mapping from leaf
\* names to sequences that was written, and has as many lines as its header says.
C13_AsStated ==
    pc = "written" =>
        /\ ReadPhylip(out) =
               { << edge.names[k], SubSeq(edge.seqs[k], 1, edge.seq_length) >> :
                   k \in 1..Len(edge.names) }
        /\ Len(out) - 1 = out[1].num_leaves
(***************************************************************************)
(* estimateLengthRatio.  A double is a record: a finite value num/den, or  *)
(* an infinity, or a NaN.                                                  *)
(***************************************************************************)
Finite(num, den) == [kind |-> "finite", num |-> num, den |-> den]

Infinite == [kind |-> "inf", num |-> 1, den |-> 1]

NotANumber == [kind |-> "nan", num |-> 1, den |-> 1]

\* the sums of the probabilities of the constant patterns computeLikelihood can
\* lead to: from 0 to above 1, in quarters, or not finite
MaxQuarters == 5

Estimates == { Finite(k, 4) : k \in 0..MaxQuarters } \cup { Infinite, NotANumber }

\* the length ratios a user can configure
ConfiguredLengthRatios == { Finite(3, 2), Finite(2, 1), Finite(5, 2) }

ASCTypes == { "ASC_NONE", "ASC_VARIANT", "ASC_VARIANT_MISSING", "ASC_INFORMATIVE" }

\* "!isfinite(estimated_length_ratio) || estimated_length_ratio > 1"
EstimatedIncorrectly(estimate) ==
    estimate.kind # "finite" \/ estimate.num > estimate.den

\* 1/(1 - estimated_length_ratio) + 0.1 in IEEE arithmetic: 1/0 is an infinity
BackupLengthRatio(estimate) ==
    IF estimate.num = estimate.den THEN Infinite
    ELSE Finite(10 * estimate.den + (estimate.den - estimate.num),
                10 * (estimate.den - estimate.num))

\* estimateLengthRatio: the ratio it leaves, given the sum computeLikelihood led to
estimateLengthRatio(has_asc, user_length_ratio, alisim_length_ratio, estimate) ==
    IF ~has_asc THEN Finite(1, 1)
    ELSE IF user_length_ratio THEN alisim_length_ratio
    ELSE IF EstimatedIncorrectly(estimate) THEN BackupLengthRatio(Finite(1, 2))
    ELSE BackupLengthRatio(estimate)

RatioInputs ==
    [ has_asc : BOOLEAN,
      user_length_ratio : BOOLEAN,
      alisim_length_ratio : ConfiguredLengthRatios,
      asc_on_entry : ASCTypes,
      asc : {"unset"},
      estimate : {NotANumber},
      length_ratio : {NotANumber} ]

InitRatio ==
    /\ IdleRun
    /\ \E i \in RatioInputs : edge = [i EXCEPT !.asc = i.asc_on_entry]
    /\ out = <<>>
    /\ pc = "estimate"

\* estimateLengthRatio when neither buildPattern nor computeLikelihood fails
EstimateLengthRatio ==
    /\ pc = "estimate"
    /\ \E estimate \in Estimates :
          edge' = [edge EXCEPT
                     !.estimate = estimate,
                     !.length_ratio =
                         estimateLengthRatio(edge.has_asc, edge.user_length_ratio,
                                             edge.alisim_length_ratio, estimate)]
    /\ pc' = "estimated"
    /\ UNCHANGED <<idle_vars, out>>

\* estimateLengthRatio left from buildPattern or computeLikelihood by an exception,
\* after ASC was set to ASC_NONE
EstimateFails ==
    /\ pc = "estimate"
    /\ edge.has_asc
    /\ ~edge.user_length_ratio
    /\ \E callee \in {"buildPattern", "computeLikelihood"} :
          out' = <<[kind |-> "exception", node |-> NONE, from |-> callee]>>
    /\ edge' = [edge EXCEPT !.asc = "ASC_NONE", !.length_ratio = Finite(1, 1)]
    /\ pc' = "failed"
    /\ UNCHANGED idle_vars

NextRatio == EstimateLengthRatio \/ EstimateFails

SpecRatio == InitRatio /\ [][NextRatio]_vars

\* a double is at least 1
AtLeastOne(r) == r.kind = "finite" /\ r.num >= r.den

\* two doubles are the same value
SameValue(r, q) == r.kind = "finite" /\ q.kind = "finite" /\ r.num * q.den = q.num * r.den

\* C14 as stated: the ratio is finite and at least 1: 1 without +ASC, the configured
\* value with a user override, and otherwise 1/(1 - p_const) + 0.1, or 2.1 when the
\* estimate is not finite or above 1.
C14_AsStated ==
    pc = "estimated" =>
        LET r == edge.length_ratio
        IN /\ AtLeastOne(r)
           /\ ~edge.has_asc => SameValue(r, Finite(1, 1))
           /\ (edge.has_asc /\ edge.user_length_ratio) => r = edge.alisim_length_ratio
           /\ (edge.has_asc /\ ~edge.user_length_ratio) =>
                  IF EstimatedIncorrectly(edge.estimate) THEN SameValue(r, Finite(21, 10))
                  ELSE SameValue(r, BackupLengthRatio(edge.estimate))

\* C15 as stated: on every exit path, the failing ones included, the ascertainment
\* setting of the model is the one it had on entry.
C15_AsStated ==
    pc \in {"estimated", "failed"} => edge.asc = edge.asc_on_entry
(***************************************************************************)
(* FunDi: the function selectAndPermuteSites checked on its own.           *)
(***************************************************************************)
InitFundi ==
    /\ IdleRun
    /\ edge \in [ proportion : Proportions, num_sites : 1..MaxFundiSites,
                  fundi_items : {<<>>} ]
    /\ out = <<>>
    /\ pc = "select"

\* selectAndPermuteSites returns
SelectAndPermuteSites ==
    /\ pc = "select"
    /\ \E items \in selectAndPermuteSites(edge.proportion, edge.num_sites) :
          edge' = [edge EXCEPT !.fundi_items = items]
    /\ pc' = "selected"
    /\ UNCHANGED <<idle_vars, out>>

\* selectAndPermuteSites ends the program: the assertion on the pool fails
SelectAndPermuteSitesAborts ==
    /\ pc = "select"
    /\ selectAndPermuteSites(edge.proportion, edge.num_sites) = {}
    /\ pc' = "aborted"
    /\ UNCHANGED <<idle_vars, out, edge>>

NextFundi == SelectAndPermuteSites \/ SelectAndPermuteSitesAborts

SpecFundi == InitFundi /\ [][NextFundi]_vars

\* C16 as stated: for a proportion f in [0, 1) and a length L >= 1 the function
\* returns ceil(f * L) items, with distinct selected sites within 0..L-1, whose new
\* positions are a permutation of the selected sites, and none of which keeps its site.
C16_AsStated ==
    pc # "select" =>
        /\ pc = "selected"
        /\ LET items == edge.fundi_items
               sites == { items[k].selected_site : k \in 1..Len(items) }
               positions == { items[k].new_position : k \in 1..Len(items) }
           IN /\ Len(items) = Ceil(edge.proportion[1] * edge.num_sites, edge.proportion[2])
              /\ Cardinality(sites) = Len(items)
              /\ sites \subseteq 0..(edge.num_sites - 1)
              /\ positions = sites
              /\ \A k \in 1..Len(items) : items[k].new_position # items[k].selected_site
(***************************************************************************)
(* FunDi in the traversal: the leaf of an edge of length zero.             *)
(***************************************************************************)
\* the step finishes an edge of length zero to a leaf, in a run with a FunDi taxon set
FinishesZeroLengthLeafEdge ==
    /\ pc = "finish"
    /\ params.alisim_fundi_taxon_set # {}
    /\ edge.length = 0
    /\ isLeaf(Children, edge.node)

\* the sequence of the leaf after the step: the one it holds, or the one just written
LeafSequenceAfter ==
    IF sequence'[edge.node] # <<>> THEN sequence'[edge.node] ELSE out'[Len(out')].seq

\* the sites at which two sequences of the same length differ, counted from 0
DifferingSites(a, b) == { j \in 0..(Len(a) - 1) : a[j + 1] # b[j + 1] }

PermutedPositions ==
    { params.fundi_items[k].new_position : k \in 1..Len(params.fundi_items) }

AtLoopStart == pc = "events" /\ indels_enabled

\* the rates of C18 for a sequence of length len holding gaps UNKNOWN sites
InsertionRateOf(len, gaps) == params.alisim_insertion_ratio * (len + 1 - gaps)

DeletionRateOf(len, gaps) ==
    params.alisim_deletion_ratio * (len - 1 - gaps + alisim_mean_deletion_size)

\* C18: on an edge with indels enabled, at the start of every iteration of the event
\* loop total_ins_rate = alisim_insertion_ratio * (L + 1 - G) and total_del_rate =
\* alisim_deletion_ratio * (L - 1 - G + mean deletion size), with L the current
\* sequence length and G the number of UNKNOWN sites of the branch's sequence, and
\* neither rate is negative
C18_RatesTrackLengthAndGaps ==
    AtLoopStart =>
        LET G == CountGaps(sequence[edge.node])
        IN /\ Len(sequence[edge.node]) = sequence_length
           /\ edge.total_ins_rate = InsertionRateOf(sequence_length, G)
           /\ edge.total_del_rate = DeletionRateOf(sequence_length, G)
           /\ edge.total_ins_rate >= 0
           /\ edge.total_del_rate >= 0

\* the loop is at an iteration after an insertion and a deletion on this edge
C18_Witness ==
    /\ AtLoopStart
    /\ edge.insertion_before_simulation # latest_insertion
    /\ CountGaps(sequence[edge.node]) > edge.num_gaps
    /\ params.alisim_insertion_ratio > 0
    /\ params.alisim_deletion_ratio > 0

(***************************************************************************)
(* C19: the event loop of one edge and its termination.                    *)
(***************************************************************************)
\* the runs with insertions or deletions on the tree of two taxa that write no
\* internal sequence
InitTwoTaxa ==
    /\ Init
    /\ params.tree = 1
    /\ indels_enabled
    /\ ~params.alisim_write_internal_sequences

\* the run keeps taking steps: no step of the program waits for anything
FairSpec == InitTwoTaxa /\ [][Next]_vars /\ WF_vars(Next)

InEventLoop == pc = "events"

\* handleIndels is entered: the remaining length is the scaled length of the edge
EntersLoop ==
    (~InEventLoop /\ InEventLoop') =>
        /\ pc = "simulate"
        /\ edge'.node # edge.node
        /\ edge'.branch_length = edge'.length * params.alisim_branch_scale
        /\ UNCHANGED num_events

\* an event is processed: its waiting time is positive and at most the remaining
\* length, and is taken off the remaining length
ProcessesEvent ==
    (InEventLoop /\ InEventLoop') =>
        /\ edge.branch_length > 0
        /\ num_events' = num_events + 1
        /\ edge'.node = edge.node
        /\ edge.branch_length - edge'.branch_length \in 1..edge.branch_length

\* the loop is left without an event
LeavesLoop == (InEventLoop /\ ~InEventLoop') => UNCHANGED <<num_events, edge>>

IsInsertionEvent ==
    /\ pc = "events"
    /\ pc' = "events"
    /\ \/ sequence_length' # sequence_length
       \/ Len(sequence'[edge.node]) # Len(sequence[edge.node])
       \/ Len(insertions') # Len(insertions)

\* the sum of the lengths of the records of the insertion list
RECURSIVE SumOfLengths(_, _)
SumOfLengths(list, records) ==
    IF records = <<>> THEN 0
    ELSE list[Head(records)].length + SumOfLengths(list, Tail(records))

InsertedSites == SumOfLengths(insertions, InsertionList)

\* the event inserts k known sites at p, which is the end or a site that is no gap, and
\* appends the record of it to the tail of the list
InsertsAndRecords ==
    LET seq == sequence[edge.node]
        new == sequence'[edge.node]
        L == sequence_length
        record == insertions'[Len(insertions')]
        p == record.position
        k == record.length
    IN /\ Len(insertions') = Len(insertions) + 1
       /\ p \in 0..L
       /\ p = L \/ seq[p + 1] # STATE_UNKNOWN
       /\ k >= 1
       /\ Len(new) = Len(seq) + k
       /\ SubSeq(new, 1, p) = SubSeq(seq, 1, p)
       /\ \A i \in (p + 1)..(p + k) : new[i] \in States
       /\ SubSeq(new, p + k + 1, Len(new)) = SubSeq(seq, p + 1, Len(seq))
       /\ record.is_append = (p = L)
       /\ record.next = NONE
       /\ latest_insertion' = Len(insertions')
       /\ insertions'[latest_insertion].next = latest_insertion'
       /\ \A i \in 1..Len(insertions) :
              i # latest_insertion => insertions'[i] = insertions[i]
       /\ InsertionListNext = Append(InsertionList, Len(insertions'))
       /\ sequence_length' = L + k

\* C20: every insertion event picks a position p in 0..L that is no gap site, splices
\* k >= 1 known sites into the branch's sequence at p, appends the one record
\* (p, k, p = L) to the tail of the insertion list and sets L to L + k; hence L is always
\* the initial length plus the lengths of all records in the list, and the size of
\* the sequence the event loop evolves
C20_InsertionBookkeeping ==
    /\ [][IsInsertionEvent => InsertsAndRecords]_vars
    /\ [](pc # "start" => sequence_length = expected_num_sites + InsertedSites)
    /\ [](pc = "events" => Len(sequence[edge.node]) = sequence_length)

\* a second insertion on one edge, into the middle of the sequence, after an insertion
\* at its end
C20_Witness ==
    /\ pc = "events"
    /\ Len(insertions) = 3
    /\ insertion_edge[2] = edge.node
    /\ insertion_edge[3] = edge.node
    /\ insertions[2].is_append
    /\ ~insertions[3].is_append
    /\ insertions[3].position > 0
    /\ sequence_length = expected_num_sites + 2

(***************************************************************************)
(* handleDeletion checked on its own: one deletion on a sequence that the  *)
(* event loop holds, with sizes up to MaxDelSize.                          *)
(***************************************************************************)
\* the longest sequence and the largest deletion size of these runs
MaxDelSeqLen == 4
MaxDelSize == 3

EvolvedSequences == UNION { [1..n -> StatesOrGap] : n \in 1..MaxDelSeqLen }

\* the state at the head of the event loop of the edge to node 1, whose sequence
\* has sequence_length sites and whose gap counter is up to date
InitDeletion ==
    /\ params = [ tree |-> 1, alisim_insertion_ratio |-> 0, alisim_deletion_ratio |-> 1,
                  alisim_sequence_length |-> 1, alisim_branch_scale |-> 1,
                  alisim_write_internal_sequences |-> FALSE,
                  user_simulation_thresh |-> FALSE, output_filepath |-> FALSE,
                  root_sequence |-> <<0>> ]
    /\ length_ratio = <<1, 1>>
    /\ expected_num_sites = 1
    /\ alisim_mean_deletion_size = 1
    /\ alisim_simulation_thresh = <<0, 1>>
    /\ \E seq \in EvolvedSequences :
       \E method \in {"RATE_MATRIX", "TRANS_PROB_MATRIX"} :
          /\ sequence = [n \in Nodes |-> IF n = 1 THEN seq ELSE <<>>]
          /\ num_gaps = [n \in Nodes |-> IF n = 1 THEN CountGaps(seq) ELSE 0]
          /\ sequence_length = Len(seq)
          /\ edge = [ node |-> 1, method |-> method, length |-> 1, branch_length |-> 1,
                      num_gaps |-> CountGaps(seq),
                      total_sub_rate |-> IF method = "RATE_MATRIX"
                                         THEN initVariables4RateMatrix(seq).total_sub_rate
                                         ELSE 0,
                      sub_rate_by_site |-> IF method = "RATE_MATRIX"
                                           THEN SubRateBySite(seq) ELSE <<>>,
                      total_ins_rate |-> 0,
                      total_del_rate |-> Len(seq) - CountGaps(seq),
                      ori_seq_length |-> Len(seq),
                      insertion_before_simulation |-> NONE ]
    /\ parent = [n \in Nodes |-> IF n = 1 THEN ROOT ELSE -1]
    /\ num_children_done_simulation = [n \in Nodes |-> 0]
    /\ insertion_pos = [n \in Nodes |-> NONE]
    /\ insertions = <<>>
    /\ insertion_edge = <<>>
    /\ first_insertion = NONE
    /\ latest_insertion = NONE
    /\ seq_length_indels = 0
    /\ stack = <<[node |-> ROOT, next |-> 1]>>
    /\ out = <<>>
    /\ num_events = 0
    /\ pc = "events"

\* the DELETION case of handleIndels with a size of up to MaxDelSize; out keeps the
\* size, the position and the sequence of the event
DeleteSites ==
    /\ pc = "events"
    /\ \E length \in 1..MaxDelSize :
       \E position \in DeletionPositions(sequence[edge.node], length) :
          LET r == DeletionEffect(edge, sequence[edge.node], position, length)
          IN /\ sequence' = [sequence EXCEPT ![edge.node] = r.seq]
             /\ num_gaps' = [num_gaps EXCEPT ![edge.node] = @ + r.real_deleted_length]
             /\ edge' = UpdateRates(r.edge, 0 - r.real_deleted_length)
             /\ out' = <<[length |-> length, position |-> position,
                          indel_sequence |-> sequence[edge.node]]>>
    /\ num_events' = num_events + 1
    /\ pc' = "deleted"
    /\ UNCHANGED <<params, length_ratio, expected_num_sites, alisim_mean_deletion_size,
                   alisim_simulation_thresh, parent, num_children_done_simulation,
                   insertion_pos, sequence_length, insertions, insertion_edge, first_insertion,
                   latest_insertion, seq_length_indels, stack>>

\* the position of the deletion cannot be selected: outError
DeleteSitesFails ==
    /\ pc = "events"
    /\ \E length \in 1..MaxDelSize :
          /\ sequence_length - length > 0
          /\ SelectPositionCanFail(sequence_length - length, sequence[edge.node])
    /\ pc' = "error"
    /\ UNCHANGED <<params, length_ratio, expected_num_sites, alisim_mean_deletion_size,
                   alisim_simulation_thresh, sequence, num_gaps, parent,
                   num_children_done_simulation, insertion_pos, sequence_length,
                   insertions, insertion_edge, first_insertion, latest_insertion, seq_length_indels,
                   stack, edge, out, num_events>>

NextDeletion == DeleteSites \/ DeleteSitesFails

SpecDeletion == InitDeletion /\ [][NextDeletion]_vars

\* the number of known sites of seq among the sites from..to
RECURSIVE KnownSitesIn(_, _, _)
KnownSitesIn(seq, from, to) ==
    IF from > to THEN 0
    ELSE (IF seq[to] # STATE_UNKNOWN THEN 1 ELSE 0) + KnownSitesIn(seq, from, to - 1)

\* seq with its first k known sites at or after position p (counted from 0) unknown
FirstKnownSitesDeleted(seq, p, k) ==
    [i \in 1..Len(seq) |->
        IF i > p /\ seq[i] # STATE_UNKNOWN /\ KnownSitesIn(seq, p + 1, i) <= k
        THEN STATE_UNKNOWN
        ELSE seq[i]]

\* C21: a deletion of drawn size k starting at p turns into UNKNOWN exactly the first
\* min(k, known sites at or after p) known sites at or after p and no other site, with
\* p inside the sequence, keeps the sequence length, and adds to the node's num_gaps
\* the number of sites it turned into UNKNOWN
C21_DeletionEffect ==
    pc = "deleted" =>
        LET before == out[1].indel_sequence
            after == sequence[edge.node]
            p == out[1].position
            k == out[1].length
            deleted == Min(k, KnownSitesIn(before, p + 1, Len(before)))
        IN /\ p \in 0..(Len(before) - 1)
           /\ after = FirstKnownSitesDeleted(before, p, k)
           /\ Len(after) = Len(before)
           /\ sequence_length = Len(after)
           /\ CountGaps(after) = CountGaps(before) + deleted
           /\ num_gaps[edge.node] = CountGaps(before) + deleted

\* a deletion of 2 sites that passed over a site deleted before
C21_Witness ==
    /\ pc = "deleted"
    /\ out[1].length = 2
    /\ out[1].position = 1
    /\ out[1].indel_sequence = <<0, 1, STATE_UNKNOWN, 0>>
    /\ sequence[edge.node] = <<0, STATE_UNKNOWN, STATE_UNKNOWN, STATE_UNKNOWN>>

(***************************************************************************)
(* selectValidPositionForIndels checked on its own, attempt by attempt.    *)
(* Its callers pass a sequence of sequence_length sites and a bound of     *)
(* sequence_length + 1 (insertion) or sequence_length - length > 0         *)
(* (deletion).                                                             *)
(***************************************************************************)
PositionInputs ==
    UNION { { [upper_bound |-> b, sequence |-> seq, i |-> 0, random |-> -1,
               position |-> -1] : b \in 1..(Len(seq) + 1) } :
            seq \in EvolvedSequences }

InitPosition ==
    /\ IdleRun
    /\ edge \in PositionInputs
    /\ out = <<>>
    /\ pc = "select"

\* one turn of the loop: a random position, moved forward over gaps, and the test
\* that ends the loop
TryPosition ==
    /\ pc = "select"
    /\ edge.i < edge.upper_bound
    /\ \E p0 \in 0..(edge.upper_bound - 1) :
       LET position == Landing(p0, edge.upper_bound, edge.sequence)
       IN \E valid \in { v \in BOOLEAN :
                           \/ v /\ CanBeValid(position, edge.sequence)
                           \/ ~v /\ CanBeInvalid(position, edge.sequence) } :
            /\ edge' = [edge EXCEPT !.random = p0, !.position = position, !.i = @ + 1]
            /\ pc' = IF valid \/ edge.i + 1 >= edge.upper_bound
                     THEN "validate" ELSE "select"
    /\ UNCHANGED <<idle_vars, out>>

\* after the loop: outError when the position is a deleted site, else the position
\* is returned
ValidatePosition ==
    /\ pc = "validate"
    /\ pc' = IF /\ edge.position < Len(edge.sequence)
                /\ edge.sequence[edge.position + 1] = STATE_UNKNOWN
             THEN "error" ELSE "returned"
    /\ UNCHANGED <<idle_vars, out, edge>>

NextPosition == TryPosition \/ ValidatePosition

SpecPosition == InitPosition /\ [][NextPosition]_vars

\* position is the index of a deleted site of seq
IsUnknownSite(position, seq) ==
    position \in 0..(Len(seq) - 1) /\ seq[position + 1] = STATE_UNKNOWN

\* the first index from p0 on that is the bound, the end of seq or a known site
RECURSIVE NextKnownBelow(_, _, _)
NextKnownBelow(p0, upper_bound, seq) ==
    IF p0 >= upper_bound \/ p0 >= Len(seq) \/ seq[p0 + 1] # STATE_UNKNOWN THEN p0
    ELSE NextKnownBelow(p0 + 1, upper_bound, seq)

\* C22: the position returned is never the index of an UNKNOWN site: 0 <= p <= bound,
\* p <= |seq| and p = |seq| or seq[p] is known; a random position on an UNKNOWN site
\* is moved forward to the next known site or the bound; there are at most bound
\* attempts; the function ends in an error exactly when the last candidate is an
\* UNKNOWN site
C22_ValidPosition ==
    /\ [](pc = "returned" =>
            /\ edge.position \in 0..edge.upper_bound
            /\ edge.position <= Len(edge.sequence)
            /\ ~IsUnknownSite(edge.position, edge.sequence)
            /\ edge.position \in selectValidPositionForIndels(edge.upper_bound,
                                                              edge.sequence))
    /\ [](pc = "error" =>
            /\ IsUnknownSite(edge.position, edge.sequence)
            /\ edge.i = edge.upper_bound
            /\ SelectPositionCanFail(edge.upper_bound, edge.sequence))
    /\ [](edge.i <= edge.upper_bound)
    /\ [][ pc = "select" =>
             /\ edge'.random \in 0..(edge.upper_bound - 1)
             /\ edge'.position = NextKnownBelow(edge'.random, edge.upper_bound,
                                                edge.sequence)
             /\ (pc' = "select") = (/\ IsUnknownSite(edge'.position, edge.sequence)
                                    /\ edge'.i < edge.upper_bound) ]_vars

\* the second attempt, after one that ended on a deleted site at the bound, was moved
\* forward from a deleted site to a known one and returned
C22_Witness ==
    /\ pc = "returned"
    /\ edge.sequence = <<STATE_UNKNOWN, 0, STATE_UNKNOWN, STATE_UNKNOWN>>
    /\ edge.upper_bound = 3
    /\ edge.random = 0
    /\ edge.position = 1
    /\ edge.i = 2

(***************************************************************************)
(* The searches of a cumulative row checked on their own: the search that  *)
(* starts at max_prob_position, the binary search over the whole row and   *)
(* the linear scan of the probabilities.                                   *)
(***************************************************************************)
\* the most columns of a row and the largest cumulative value
MaxColumns == 3
MaxCumulative == 4

\* getRandomItemWithProbabilityMatrix, with the probabilities given as the steps of
\* the cumulative row: the first i whose running sum is >= random_number, or -1
RECURSIVE LinearScan(_, _, _, _, _)
LinearScan(m, starting_index, num_items, i, random_number) ==
    IF i >= num_items THEN -1
    ELSE IF random_number <= At(m, starting_index + i) THEN i
         ELSE LinearScan(m, starting_index, num_items, i + 1, random_number)

getRandomItemWithProbabilityMatrix(m, starting_index, num_items, random_number) ==
    LinearScan(m, starting_index, num_items, 0, random_number)

getRandomItemWithAccumulatedProbabilityMatrix(m, starting_index, num_columns, random_number) ==
    binarysearchItemWithAccumulatedProbabilityMatrix(
        m, random_number, starting_index, starting_index + (num_columns - 1),
        starting_index) - starting_index

\* the cumulative rows: not decreasing, with a positive last entry
CumulativeRows ==
    UNION { { row \in [1..n -> 0..MaxCumulative] :
                /\ \A c \in 1..(n - 1) : row[c] <= row[c + 1]
                /\ row[n] > 0 } : n \in 1..MaxColumns }

SearchInputs ==
    UNION { { [row |-> row, max_prob_position |-> mpp, random_number |-> r] :
                mpp \in 0..(Len(row) - 1), r \in 0..row[Len(row)] } :
            row \in CumulativeRows }

InitSearch ==
    /\ IdleRun
    /\ edge \in SearchInputs
    /\ out = <<>>
    /\ pc = "search"

\* the three searches on the same row and the same random number
SearchRow ==
    /\ pc = "search"
    /\ out' = <<[ max_prob_first |->
                      getRandomItemWithAccumulatedProbMatrixMaxProbFirst(
                          edge.row, 0, Len(edge.row), edge.max_prob_position,
                          edge.random_number),
                  binary |->
                      getRandomItemWithAccumulatedProbabilityMatrix(
                          edge.row, 0, Len(edge.row), edge.random_number),
                  linear |->
                      getRandomItemWithProbabilityMatrix(
                          edge.row, 0, Len(edge.row), edge.random_number) ]>>
    /\ pc' = "found"
    /\ UNCHANGED <<idle_vars, edge>>

NextSearch == SearchRow

SpecSearch == InitSearch /\ [][NextSearch]_vars

\* C23 as stated: for every cumulative row, every max_prob_position and every random
\* number up to the last entry, the search that starts at max_prob_position returns
\* the column of the plain searches, the first column whose cumulative value is >= the
\* random number, and the column is within 0..num_columns-1
C23_AsStated ==
    pc = "found" =>
        /\ out[1].max_prob_first = out[1].linear
        /\ out[1].max_prob_first = out[1].binary
        /\ out[1].max_prob_first \in 0..(Len(edge.row) - 1)

(***************************************************************************)
(* C24: the substitution rates of the RATE_MATRIX method.                  *)
(***************************************************************************)
\* C24: while an edge is simulated with RATE_MATRIX, after the initialisation and
\* after every event, sub_rate_by_site has one entry per site, the entry of every
\* UNKNOWN site is 0, and total_sub_rate is the sum of the entries; so no UNKNOWN site
\* can be chosen for a substitution
C24_UnknownSitesHaveNoRate ==
    (pc = "events" /\ edge.method = "RATE_MATRIX") =>
        LET seq == sequence[edge.node]
        IN /\ Len(edge.sub_rate_by_site) = Len(seq)
           /\ \A i \in 1..Len(seq) :
                  seq[i] = STATE_UNKNOWN => edge.sub_rate_by_site[i] = 0
           /\ edge.total_sub_rate = SumOver(edge.sub_rate_by_site, Len(seq))
           /\ \A i \in SubstitutionPositions(edge.sub_rate_by_site) :
                  seq[i] # STATE_UNKNOWN

\* a RATE_MATRIX edge after two events, among them a substitution that changed the
\* total rate, on a sequence that holds a deleted site
C24_Witness ==
    /\ pc = "events"
    /\ edge.method = "RATE_MATRIX"
    /\ num_events = 2
    /\ CountGaps(sequence[edge.node]) > 0
    /\ Len(sequence[edge.node]) = edge.ori_seq_length
    /\ CountGaps(sequence[edge.node]) = edge.num_gaps
    /\ edge.total_sub_rate > 0
    /\ edge.total_sub_rate # initVariables4RateMatrix(sequence[parent[edge.node]]).total_sub_rate
    /\ Len(sequence[parent[edge.node]]) = Len(sequence[edge.node])

(***************************************************************************)
(* C25: when the sequence of an internal node is released.                 *)
(***************************************************************************)
InternalNodes == { n \in TreeNodes[params.tree] : ~isLeaf(Children, n) }

\* the edge to the last child of the node on top of the stack is being finished
FinishesLastEdgeOf(n) ==
    /\ pc = "finish"
    /\ stack[Len(stack)].node = n
    /\ stack[Len(stack)].next = Len(Children[n])

\* the edges from n that are simulated: the child has its dad and its edge is not
\* the one that is still in its event loop
EdgesSimulated(n) ==
    \A k \in 1..Len(Children[n]) :
        /\ parent[Children[n][k]] = n
        /\ pc = "events" => edge.node # Children[n][k]

\* an edge is about to be simulated from the node on top of the stack
StartsEdge ==
    /\ pc = "simulate"
    /\ stack # <<>>
    /\ stack[Len(stack)].next <= Len(Children[stack[Len(stack)].node])

\* C25: the sequence of an internal node is released only after every edge from it
\* is simulated, and then at once unless indels are enabled together with the output
\* of internal sequences; so no edge, those from the start node of the traversal
\* included, is simulated from a dad whose sequence is released
C25_ReleaseAfterAllEdges ==
    /\ [][ \A n \in InternalNodes :
             /\ (sequence[n] # <<>> /\ sequence'[n] = <<>>) =>
                    /\ EdgesSimulated(n)
                    /\ FinishesLastEdgeOf(n)
             /\ FinishesLastEdgeOf(n) =>
                    IF indels_enabled /\ params.alisim_write_internal_sequences
                    THEN sequence'[n] = sequence[n] /\ sequence[n] # <<>>
                    ELSE sequence[n] # <<>> /\ sequence'[n] = <<>> ]_vars
    /\ [](StartsEdge => sequence[stack[Len(stack)].node] # <<>>)

\* the node of three taxa is released while its last child is entered, in a run with
\* indels
C25_Witness ==
    /\ params.tree = 2
    /\ indels_enabled
    /\ pc = "simulate"
    /\ stack[Len(stack)].node = 4
    /\ sequence[1] = <<>>
    /\ sequence[4] # <<>>

(***************************************************************************)
(* C26: when the sequence of a leaf is destroyed.                          *)
(***************************************************************************)
\* the edge to a leaf is being finished
FinishesLeafEdge == pc = "finish" /\ isLeaf(Children, edge.node)

\* the leaves attached to the records of the insertion list
AttachedLeaves ==
    { n \in Nodes : \E k \in 1..Len(insertions) :
                       \E j \in 1..Len(insertions[k].phylo_nodes) :
                          insertions[k].phylo_nodes[j] = n }

C27_DadHasCurrentLength ==
    StartsEdge =>
        LET node == stack[Len(stack)].node
        IN /\ sequence[node] # <<>>
           /\ Len(sequence[node]) = sequence_length
           /\ \A n \in PathToRoot(parent, node) :
                  (/\ sequence[n] # <<>>
                   /\ n # ROOT \/ params.alisim_write_internal_sequences)
                      => Len(sequence[n]) = sequence_length

\* C27 as stated: every sequence still held on the path from the root to the dad has
\* the current sequence length
C27_AsStated ==
    StartsEdge =>
        LET node == stack[Len(stack)].node
        IN /\ sequence[node] # <<>>
           /\ Len(sequence[node]) = sequence_length
           /\ \A n \in PathToRoot(parent, node) :
                  sequence[n] # <<>> => Len(sequence[n]) = sequence_length

\* the second edge from the node is about to be simulated after an insertion on the
\* first, in a run that holds the root's sequence too
C27_Witness ==
    /\ StartsEdge
    /\ stack[Len(stack)].node = 1
    /\ stack[Len(stack)].next = 2
    /\ sequence_length > expected_num_sites
    /\ insertion_edge[Len(insertion_edge)] = 2
    /\ sequence[ROOT] # <<>>
    /\ CountGaps(sequence[1]) > CountGaps(params.root_sequence)

(***************************************************************************)
(* C28: the state written by a substitution event, checked on its own for  *)
(* models of up to MaxSubStates states and MaxMixtures mixture classes.    *)
(***************************************************************************)
\* the most states of a model, the largest exchange rate, the most mixture classes
MaxSubStates == 4
MaxRate == 2
MaxMixtures == 2
\* the most rows of a J matrix: mixture classes times states
MaxJRows == 6

\* the exchange rates of a model with n states: one rate per unordered pair of states
ExchangeRates(n) ==
    [ { p \in (0..(n - 1)) \X (0..(n - 1)) : p[1] < p[2] } -> 1..MaxRate ]

\* model->getQMatrix of one mixture class: row-major, off the diagonal the exchange
\* rate of the pair, on the diagonal minus the sum of the row
QMatrixOf(x, n) ==
    [k \in 1..(n * n) |->
        LET i == (k - 1) \div n
            j == (k - 1) % n
            rate(a, b) == IF a < b THEN x[<<a, b>>] ELSE x[<<b, a>>]
        IN IF i = j
           THEN 0 - SumOver([c \in 1..n |-> IF c - 1 = i THEN 0 ELSE rate(i, c - 1)], n)
           ELSE rate(i, j)]

\* sub_rates of extractRatesJMatrix: for every mixture class and state, minus the
\* diagonal of the class's Q matrix
SubRatesOf(q, num_mixture_models, n) ==
    [k \in 1..(num_mixture_models * n) |->
        LET mixture == (k - 1) \div n
            i == (k - 1) % n
        IN 0 - At(q[mixture + 1], i * (n + 1))]

\* Jmatrix of extractRatesJMatrix: 0 on the diagonal, Q[i][j] / sub_rates[i] off it,
\* then accumulated row by row; row i is held in the unit 1 / sub_rates[i], so that
\* its entries are the integers Q[i][j] and its last entry is sub_rates[i]
JmatrixOf(q, num_mixture_models, n) ==
    convertProMatrixIntoAccumulatedProMatrix(
        [k \in 1..(num_mixture_models * n * n) |->
            LET mixture == (k - 1) \div (n * n)
                i == ((k - 1) % (n * n)) \div n
                j == (k - 1) % n
            IN IF i = j THEN 0 ELSE At(q[mixture + 1], i * n + j)],
        num_mixture_models * n, n)

\* the state handleSubs writes over current_state
NewState(J, max_num_states, mixture_index, current_state, random_number) ==
    LET starting_index ==
            mixture_index * max_num_states * max_num_states + max_num_states * current_state
    IN getRandomItemWithAccumulatedProbMatrixMaxProbFirst(
           J, starting_index, max_num_states, max_num_states \div 2, random_number)

\* a model, a site with a known state, the mixture class of the event and the value of
\* random_double() in the unit of the row of the class and the state
SubsInputsOf(n, nm) ==
    UNION { { [ max_num_states |-> n, num_mixture_models |-> nm, q |-> q,
                mixture_index |-> mi, current_state |-> c, random_number |-> r ] :
              mi \in 0..(nm - 1), c \in 0..(n - 1), r \in 0..(MaxRate * (n - 1) - 1) } :
            q \in [1..nm -> { QMatrixOf(x, n) : x \in ExchangeRates(n) }] }

SubsInputs ==
    UNION { SubsInputsOf(p[1], p[2]) :
            p \in { p \in (2..MaxSubStates) \X (1..MaxMixtures) : p[1] * p[2] <= MaxJRows } }

InitSubs ==
    /\ IdleRun
    /\ edge \in SubsInputs
    /\ edge.random_number \in
           RandomNumbers(0 - At(edge.q[edge.mixture_index + 1],
                                edge.current_state * (edge.max_num_states + 1)))
    /\ out = <<>>
    /\ pc = "subs"

\* handleSubs at a chosen position: the state of the position is replaced
SubstituteState ==
    /\ pc = "subs"
    /\ out' = <<NewState(JmatrixOf(edge.q, edge.num_mixture_models, edge.max_num_states),
                         edge.max_num_states, edge.mixture_index, edge.current_state,
                         edge.random_number)>>
    /\ pc' = "substituted"
    /\ UNCHANGED <<idle_vars, edge>>

NextSubs == SubstituteState

SpecSubs == InitSubs /\ [][NextSubs]_vars

\* C28 as stated: for every current state, every mixture class and every random
\* number, the state written by a substitution event is a state in
\* 0..max_num_states-1 other than the current state
C28_AsStated ==
    pc = "substituted" =>
        /\ out[1] \in 0..(edge.max_num_states - 1)
        /\ out[1] # edge.current_state

(***************************************************************************)
(* C29: the runs in which sites are deleted and never inserted.            *)
(***************************************************************************)
DeletionOnly == params.alisim_insertion_ratio = 0 /\ params.alisim_deletion_ratio > 0

\* the step writes the leaf of the edge to the output file as a line of the alignment
WritesLeafDirectly ==
    /\ Len(out') > Len(out)
    /\ out'[Len(out) + 1].kind = "leaf"
    /\ out'[Len(out) + 1].node = edge.node

MaxTaxa == 4
MaxRuns == 3

\* the name of the node that rootTree adds, and the name of a taxon
ROOT_NAME == "__root__"
TaxonName == "taxon"

\* the tree left as it was
rootTreeSkipped(tree) == tree

\* rootTree on a tree whose root has a neighbour: a new terminal node named ROOT_NAME
\* with the sequence of the old root becomes the root, linked to the old root's first
\* neighbour, whose id is moved away when it equals the new root's
rootTree(tree) ==
    LET new_root == [ name |-> ROOT_NAME, id |-> tree.leafNum, num_neighbors |-> 1 ]
    IN [tree EXCEPT
           !.second_internal_node_id =
               IF @ = new_root.id THEN new_root.id * 10 ELSE @,
           !.root = new_root,
           !.rooted = TRUE,
           !.leafNum = @ + 1]

\* num_leaves of the first line of the PHYLIP output
num_leaves(tree) ==
    tree.leafNum -
        (IF tree.root.num_neighbors = 1 /\ tree.root.name = ROOT_NAME THEN 1 ELSE 0)

\* the unrooted trees as they are read: the root is the leaf of a taxon, leafNum is the
\* number of taxa, and the root's neighbour is another node
UnrootedTrees ==
    UNION { { [ num_taxa |-> n, leafNum |-> n, rooted |-> FALSE,
                root |-> [ name |-> TaxonName, id |-> 0, num_neighbors |-> 1 ],
                second_internal_node_id |-> id ] : id \in 1..(2 * n - 2) } :
            n \in 2..MaxTaxa }

InitRuns ==
    /\ IdleRun
    /\ edge \in { [ tree |-> t, has_output |-> o, phylip |-> f, runs |-> 0 ] :
                  t \in UnrootedTrees, o \in BOOLEAN, f \in BOOLEAN }
    /\ out = <<>>
    /\ pc = "runs"

\* one run of simulateSeqsForTree, as far as the tree and the first line of the output
\* are concerned: the header is written from the tree as it is, then the tree is
\* rooted if it is not
SimulateSeqsForTree ==
    /\ pc = "runs"
    /\ edge.runs < MaxRuns
    /\ out' = IF edge.has_output /\ edge.phylip
              THEN Append(out, num_leaves(edge.tree)) ELSE out
    /\ edge' = [edge EXCEPT !.tree = IF ~@.rooted THEN rootTree(@) ELSE @,
                            !.runs = @ + 1]
    /\ UNCHANGED <<idle_vars, pc>>

NextRuns == SimulateSeqsForTree

SpecRuns == InitRuns /\ [][NextRuns]_vars

\* C30: over consecutive runs on the same simulator an unrooted tree is rooted in the
\* first run and never again: after it the tree is marked rooted, its root is a
\* terminal node named ROOT_NAME whose id is the number of leaves before the rooting,
\* the number of leaves is one more than before, and no later run changes the tree;
\* the first line of the PHYLIP output of every run gives the number of taxa
C30_RootedOnce ==
    /\ [](edge.runs >= 1 =>
            /\ edge.tree.rooted
            /\ edge.tree.root.name = ROOT_NAME
            /\ edge.tree.root.num_neighbors = 1
            /\ edge.tree.root.id = edge.tree.num_taxa
            /\ edge.tree.leafNum = edge.tree.num_taxa + 1)
    /\ [][ edge.runs >= 1 => edge'.tree = edge.tree ]_vars
    /\ [][ edge.runs = 0 =>
             /\ ~edge.tree.rooted
             /\ edge'.tree.root.id = edge.tree.leafNum
             /\ edge'.tree.leafNum = edge.tree.leafNum + 1 ]_vars
    /\ [](\A k \in 1..Len(out) : out[k] = edge.tree.num_taxa)
    /\ []((edge.has_output /\ edge.phylip) => Len(out) = edge.runs)

\* three runs on a tree of three taxa have each written their header, and the rooting
\* moved the id of the root's neighbour
C30_Witness ==
    /\ edge.runs = MaxRuns
    /\ edge.tree.num_taxa = 3
    /\ Len(out) = MaxRuns
    /\ edge.tree.second_internal_node_id = 30


====
